---- MODULE Spec2Model ----
(***************************************************************************)
(* HashTable (project/Assignment_5/hash_table.py) and ThreadSafeHashTable  *)
(* (project/Assignment_6/multi_process_table.py): a chained hash table     *)
(* with automatic growth, and its lock-protected shared variant.           *)
(*                                                                         *)
(* The variable kind records which of the two classes was constructed.     *)
(* A HashTable is used by a single owner, one whole call per step.  A      *)
(* ThreadSafeHashTable is used by several contexts; a call is a frame on   *)
(* the calling context's stack which advances through `with self._lock`,   *)
(* the method body, and the release of the lock on leaving the with block. *)
(***************************************************************************)
EXTENDS Integers, Sequences, FiniteSets, TLC

\* ------------------------------------------------------------------ bounds
MaxKey == 0
MaxVal == 2
MaxInitCapacity == 3
NumContexts == 2

\* Load factor threshold 0.75 = LoadNum / LoadDen
LoadNum == 3
LoadDen == 4

\* HashTable.__init__ and ThreadSafeHashTable.__init__: capacity = 16
DefaultCapacity == 16
\* test_collision_and_resize: for i in range(20)
ScenarioKeys == 20
\* test_collision_and_resize: HashTable(capacity=4)
ScenarioSmallCapacity == 4
\* where the encoding of the string keys starts
StrBase == 100

\* writers of the concurrent-insert scenario insert this many keys each
KeysPerWriter == 2
\* the hash seeds tried are 0..MaxSeed
MaxSeed == 2
\* the non-positive capacities a table is built with are -MaxBadCapacity..0
MaxBadCapacity == 1
\* a table handed to direct writers holds 0..MaxPreload entries already
MaxPreload == 2
\* a game has 1..MaxPlayers players
MaxPlayers == 3
\* a scoreboard is followed until MaxFilled of its categories are filled
MaxFilled == 2
\* advance_turn is called up to ExtraCalls times after the game is over
ExtraCalls == 3
\* a Turn is made with NumDice dice (num_dice)
NumDice == 2
\* a game of play_game has 1..MaxBots players
MaxBots == 2

Keys == -2..MaxKey
Values == 1..MaxVal
InitCapacities == 1..MaxInitCapacity
Contexts == 1..NumContexts
FREE == 0

VARIABLES kind, capacity, size, buckets, lock, stack, ref, amap, lastDone,
          todo, seed, script, game

\* The variables of the hash tables and their callers; game is the Yahtzee
\* game of project/Assignment_4, which shares nothing with them.
tableVars == <<kind, capacity, size, buckets, lock, stack, ref, amap,
               lastDone, todo, seed, script>>

vars == <<kind, capacity, size, buckets, lock, stack, ref, amap, lastDone,
          todo, seed, script, game>>

\* No game: the value of game wherever only tables are at work.
NoGame == [players |-> 0]

\* ------------------------------------------------------- values and results
\* What a call hands back to its caller: None, a stored value, KeyError(key),
\* a bool (0/1), an int, or the keys an iteration yielded, in order.
NoneRes == [tag |-> "None", v |-> 0]
ValueRes(v) == [tag |-> "value", v |-> v]
KeyError(k) == [tag |-> "KeyError", v |-> k]
BoolRes(b) == [tag |-> "bool", v |-> IF b THEN 1 ELSE 0]
IntRes(n) == [tag |-> "int", v |-> n]
KeysRes(ks) == [tag |-> "keys", v |-> ks]
\* the (key, value) pairs repr, items() or values() went through, in order
PairsRes(ps) == [tag |-> "pairs", v |-> ps]
\* hash(key) % 0, and indexing the empty list of buckets
ZeroDivisionError == [tag |-> "ZeroDivisionError", v |-> 0]
IndexError == [tag |-> "IndexError", v |-> 0]

\* Keys are ints, or the strings "key0", "key1", ...: "key<i>" is StrBase + i.
StrKey(i) == StrBase + i

\* CPython's hash: of a small int the int itself, except hash(-1) == -2; of
\* a string a value fixed by the interpreter's hash seed, here one of a few
\* functions of the string (seed 0 makes all strings collide).
PyHash(k) ==
  IF k >= StrBase THEN (k - StrBase) * seed
  ELSE IF k = -1 THEN -2 ELSE k

\* The table's fields as one value.
Table(c, s, b) == [capacity |-> c, size |-> s, buckets |-> b]
Cur == Table(capacity, size, buckets)

\* No table: the pre field of a call that has not entered its with block.
NoTable == Table(0, 0, <<>>)

\* [[] for _ in range(capacity)]
RECURSIVE EmptyBuckets(_)
EmptyBuckets(c) == IF c <= 0 THEN <<>> ELSE Append(EmptyBuckets(c - 1), <<>>)

\* HashTable.__init__
NewTable(c) == Table(c, 0, EmptyBuckets(c))

\* _hash: hash(key) % capacity (bucket i of the code is buckets[i + 1] here)
Hash(t, k) == PyHash(k) % t.capacity

\* The scan for a key that looks at the first entry of the bucket only.
FindIdxFirstOnly(bucket, k) ==
  IF Len(bucket) > 0 /\ bucket[1][1] = k THEN 1 ELSE 0

\* for i, (k, _) in enumerate(bucket): if k == key  -- position of the first
\* entry of the bucket with that key, 0 when the loop ends without a match
FindIdx(bucket, k) ==
  IF \E i \in 1..Len(bucket) : bucket[i][1] = k
  THEN CHOOSE i \in 1..Len(bucket) :
         /\ bucket[i][1] = k
         /\ \A j \in 1..(i - 1) : bucket[j][1] # k
  ELSE 0

\* del bucket[i]
RemoveAt(bucket, i) ==
  SubSeq(bucket, 1, i - 1) \o SubSeq(bucket, i + 1, Len(bucket))

\* The load check with the threshold 1 in place of 0.75.
OverLoadAboveOne(s, c) == s > c

\* self._size / self._capacity > 0.75
OverLoad(s, c) == LoadDen * s > LoadNum * c

\* the entries of all buckets, in bucket order then chain order
RECURSIVE Flatten(_)
Flatten(bs) ==
  IF Len(bs) = 0 THEN <<>> ELSE Head(bs) \o Flatten(Tail(bs))

\* ------------------------------------------------------ HashTable, sequential
RECURSIVE SetItem(_, _, _), Resize(_), Replay(_, _)

\* __setitem__ without its scan for the key: it always appends.
SetItemAlwaysAppends(t, k, v) ==
  LET index == Hash(t, k)
      t1 == [t EXCEPT !.buckets[index + 1] = Append(@, <<k, v>>),
                      !.size = t.size + 1]
  IN IF OverLoad(t1.size, t1.capacity) THEN Resize(t1) ELSE t1

\* __setitem__ that puts a new entry at the head of its chain.
SetItemPrepends(t, k, v) ==
  LET index == Hash(t, k)
      bucket == t.buckets[index + 1]
      i == FindIdx(bucket, k)
  IN IF i > 0
     THEN [t EXCEPT !.buckets[index + 1][i] = <<k, v>>]
     ELSE LET t1 == [t EXCEPT !.buckets[index + 1] = <<<<k, v>>>> \o bucket,
                              !.size = t.size + 1]
          IN IF OverLoad(t1.size, t1.capacity) THEN Resize(t1) ELSE t1

\* HashTable.__setitem__
SetItem(t, k, v) ==
  LET index == Hash(t, k)
      bucket == t.buckets[index + 1]
      i == FindIdx(bucket, k)
  IN IF i > 0
     THEN [t EXCEPT !.buckets[index + 1][i] = <<k, v>>]
     ELSE LET t1 == [t EXCEPT !.buckets[index + 1] = Append(bucket, <<k, v>>),
                              !.size = t.size + 1]
          IN IF OverLoad(t1.size, t1.capacity) THEN Resize(t1) ELSE t1

\* _resize without `self._size = 0`: the replay counts on top of the old size.
ResizeKeepsSize(t) ==
  Replay(Table(t.capacity * 2, t.size, EmptyBuckets(t.capacity * 2)),
         Flatten(t.buckets))

\* _resize that adds the new buckets and leaves every entry where it was.
ResizeKeepsPlaces(t) ==
  Table(t.capacity * 2, t.size, t.buckets \o EmptyBuckets(t.capacity))

\* HashTable._resize
Resize(t) ==
  Replay(Table(t.capacity * 2, 0, EmptyBuckets(t.capacity * 2)),
         Flatten(t.buckets))

\* the loop of _resize: self[key] = value for every old entry
Replay(t, entries) ==
  IF Len(entries) = 0 THEN t
  ELSE Replay(SetItem(t, Head(entries)[1], Head(entries)[2]), Tail(entries))

\* __getitem__ that returns the first entry of the bucket, whatever its key.
GetItemFirstOfBucket(t, k) ==
  LET bucket == t.buckets[Hash(t, k) + 1]
  IN IF Len(bucket) > 0 THEN ValueRes(bucket[1][2]) ELSE KeyError(k)

\* HashTable.__getitem__
GetItem(t, k) ==
  LET bucket == t.buckets[Hash(t, k) + 1]
      i == FindIdx(bucket, k)
  IN IF i > 0 THEN ValueRes(bucket[i][2]) ELSE KeyError(k)

\* __delitem__ that decrements the size but leaves the entry in its bucket.
DelItemKeepsEntry(t, k) ==
  LET bucket == t.buckets[Hash(t, k) + 1]
  IN IF FindIdx(bucket, k) > 0
     THEN [t |-> [t EXCEPT !.size = t.size - 1], res |-> NoneRes]
     ELSE [t |-> t, res |-> KeyError(k)]

\* __delitem__ that rebuilds the table with half the buckets after removing
\* an entry.
DelItemShrinks(t, k) ==
  LET index == Hash(t, k)
      bucket == t.buckets[index + 1]
      i == FindIdx(bucket, k)
      t1 == [t EXCEPT !.buckets[index + 1] = RemoveAt(bucket, i),
                      !.size = t.size - 1]
      half == t.capacity \div 2
  IN IF i > 0
     THEN [t |-> IF half >= 1
                 THEN Replay(Table(half, 0, EmptyBuckets(half)),
                             Flatten(t1.buckets))
                 ELSE t1,
           res |-> NoneRes]
     ELSE [t |-> t, res |-> KeyError(k)]

\* HashTable.__delitem__: the table afterwards, and what the call gives back
DelItem(t, k) ==
  LET index == Hash(t, k)
      bucket == t.buckets[index + 1]
      i == FindIdx(bucket, k)
  IN IF i > 0
     THEN [t |-> [t EXCEPT !.buckets[index + 1] = RemoveAt(bucket, i),
                           !.size = t.size - 1],
           res |-> NoneRes]
     ELSE [t |-> t, res |-> KeyError(k)]

\* HashTable.__contains__
Contains(t, k) ==
  LET bucket == t.buckets[Hash(t, k) + 1]
  IN \E i \in 1..Len(bucket) : bucket[i][1] = k

\* HashTable.__len__
LenOf(t) == t.size

\* for key, _ in bucket: yield key
RECURSIVE ChainKeys(_)
ChainKeys(entries) ==
  IF Len(entries) = 0 THEN <<>>
  ELSE <<Head(entries)[1]>> \o ChainKeys(Tail(entries))

\* __iter__ that yields the first key of every bucket and skips the rest of
\* the chain.
RECURSIVE FirstKeys(_)
FirstKeys(bs) ==
  IF Len(bs) = 0 THEN <<>>
  ELSE (IF Len(Head(bs)) = 0 THEN <<>> ELSE <<Head(bs)[1][1]>>)
         \o FirstKeys(Tail(bs))

IterateFirstOfChains(t) == FirstKeys(t.buckets)

\* HashTable.__iter__, run to exhaustion with no call in between: the keys
\* yielded, bucket by bucket and along each chain.
Iterate(t) == ChainKeys(Flatten(t.buckets))

\* One call of a public operation on a sequential HashTable: the table
\* afterwards and the result.
Apply(t, op, k, v) ==
  CASE op = "set" -> [t |-> SetItem(t, k, v), res |-> NoneRes]
    [] op = "get" -> [t |-> t, res |-> GetItem(t, k)]
    [] op = "del" -> DelItem(t, k)
    [] op = "contains" -> [t |-> t, res |-> BoolRes(Contains(t, k))]
    [] op = "len" -> [t |-> t, res |-> IntRes(LenOf(t))]
    [] op = "iter" -> [t |-> t, res |-> KeysRes(Iterate(t))]
    [] op = "repr" -> [t |-> t, res |-> PairsRes(Flatten(t.buckets))]

\* The mapping the calls made so far describe, as a set of <<key, value>>
\* pairs: what the table is meant to hold, whatever its layout.
MapApply(m, op, k, v) ==
  CASE op = "set" -> {e \in m : e[1] # k} \cup {<<k, v>>}
    [] op = "del" -> {e \in m : e[1] # k}
    [] OTHER -> m

\* ------------------------------------------------------------ call records
\* A call in progress on the shared table: the operation and its arguments,
\* where it stands (pc), the result it is about to give back (res), the old
\* entries _resize still has to re-insert (pending), and the table as it was
\* when the call entered its with block (pre).
Frame(op, k, v) ==
  [op |-> op, key |-> k, val |-> v, pc |-> "lock", res |-> NoneRes,
   pending |-> <<>>, pre |-> NoTable, expect |-> NoneRes]

Depth(c) == Len(stack[c])
Top(c) == stack[c][Depth(c)]
Idle(c) == Depth(c) = 0
At(c, pc) == ~Idle(c) /\ Top(c).pc = pc
AtOp(c, op, pc) == At(c, pc) /\ Top(c).op = op

SetTop(c, f) == [stack EXCEPT ![c][Depth(c)] = f]
Push(st, c, f) == [st EXCEPT ![c] = Append(@, f)]
Pop(c) == [stack EXCEPT ![c] = SubSeq(@, 1, Depth(c) - 1)]

\* The record of the call that completed last.
Done(op, k, v, res, pre) ==
  [op |-> op, key |-> k, val |-> v, res |-> res, pre |-> pre]

\* ------------------------------------------------- HashTable: one call a step
HTStep(op, k, v) ==
  LET r == Apply(Cur, op, k, v)
  IN /\ capacity' = r.t.capacity
     /\ size' = r.t.size
     /\ buckets' = r.t.buckets
     /\ lastDone' = Done(op, k, v, r.res, Cur)
     /\ amap' = MapApply(amap, op, k, v)

HTSetItem ==
  /\ kind = "HashTable"
  /\ \E k \in Keys, v \in Values : HTStep("set", k, v)
  /\ UNCHANGED <<kind, lock, stack, ref, todo, seed, script, game>>

HTGetItem ==
  /\ kind = "HashTable"
  /\ \E k \in Keys : HTStep("get", k, 0)
  /\ UNCHANGED <<kind, lock, stack, ref, todo, seed, script, game>>

HTDelItem ==
  /\ kind = "HashTable"
  /\ \E k \in Keys : HTStep("del", k, 0)
  /\ UNCHANGED <<kind, lock, stack, ref, todo, seed, script, game>>

HTContains ==
  /\ kind = "HashTable"
  /\ \E k \in Keys : HTStep("contains", k, 0)
  /\ UNCHANGED <<kind, lock, stack, ref, todo, seed, script, game>>

HTLen ==
  /\ kind = "HashTable"
  /\ HTStep("len", 0, 0)
  /\ UNCHANGED <<kind, lock, stack, ref, todo, seed, script, game>>

\* list(table): __iter__ consumed to exhaustion
HTIter ==
  /\ kind = "HashTable"
  /\ HTStep("iter", 0, 0)
  /\ UNCHANGED <<kind, lock, stack, ref, todo, seed, script, game>>

\* ------------------------------------------- ThreadSafeHashTable: the steps
\* The calls a client may make: any public operation on any key.
ClientCalls ==
  {Frame(op[1], op[2], op[3]) : op \in
     ({"set"} \X Keys \X Values)
       \cup ({"get", "del", "contains"} \X Keys \X {0})
       \cup {<<"len", 0, 0>>, <<"iter", 0, 0>>}}

\* Entering the with block without waiting for the lock to be free.
TSEnterNoWait(c, calls) ==
  /\ kind = "ThreadSafeHashTable"
  /\ \E f \in (IF Idle(c) THEN calls
               ELSE IF Top(c).pc = "lock" THEN {Top(c)} ELSE {}) :
       LET g == [f EXCEPT !.pc = "body", !.pre = Cur,
                          !.expect = Apply(ref, f.op, f.key, f.val).res]
       IN /\ stack' = IF Idle(c) THEN Push(stack, c, g) ELSE SetTop(c, g)
          /\ ref' = IF Idle(c) THEN Apply(ref, f.op, f.key, f.val).t ELSE ref
          /\ amap' = IF Idle(c) THEN MapApply(amap, f.op, f.key, f.val)
                     ELSE amap
  /\ lock' = c
  /\ UNCHANGED <<kind, capacity, size, buckets, lastDone, seed, script, game>>

\* with self._lock: the lock of manager.Lock() is not reentrant, so the
\* caller waits until it is free, whoever holds it.  The call that enters is
\* one of calls when c is idle (a client calls), or the call _resize has just
\* made when that is what c is waiting in.  For a client's call the same
\* operation is applied to the sequential reference table at this moment.
TSEnter(c, calls) ==
  /\ kind = "ThreadSafeHashTable"
  /\ lock = FREE
  /\ \E f \in (IF Idle(c) THEN calls
               ELSE IF Top(c).pc = "lock" THEN {Top(c)} ELSE {}) :
       LET g == [f EXCEPT !.pc = "body", !.pre = Cur,
                          !.expect = Apply(ref, f.op, f.key, f.val).res]
       IN /\ stack' = IF Idle(c) THEN Push(stack, c, g) ELSE SetTop(c, g)
          /\ ref' = IF Idle(c) THEN Apply(ref, f.op, f.key, f.val).t ELSE ref
          /\ amap' = IF Idle(c) THEN MapApply(amap, f.op, f.key, f.val)
                     ELSE amap
  /\ lock' = c
  /\ UNCHANGED <<kind, capacity, size, buckets, lastDone, seed, script, game>>

\* Any client call, or the pending call of _resize, enters its with block.
TSAcquire(c) ==
  /\ TSEnter(c, ClientCalls)
  /\ UNCHANGED todo

\* ThreadSafeHashTable.__setitem__, lines 87-98
TSSetItem(c) ==
  /\ AtOp(c, "set", "body")
  /\ LET f == Top(c)
         index == Hash(Cur, f.key)
         bucket == buckets[index + 1]
         i == FindIdx(bucket, f.key)
     IN IF i > 0
        THEN /\ buckets' = [buckets EXCEPT ![index + 1][i] = <<f.key, f.val>>]
             /\ size' = size
             /\ stack' = SetTop(c, [f EXCEPT !.pc = "exit"])
        ELSE /\ buckets' = [buckets EXCEPT
                              ![index + 1] = Append(bucket, <<f.key, f.val>>)]
             /\ size' = size + 1
             /\ stack' = SetTop(c, [f EXCEPT !.pc =
                           IF OverLoad(size + 1, capacity)
                           THEN "resize" ELSE "exit"])
  /\ UNCHANGED <<kind, capacity, lock, ref, amap, lastDone, todo, seed, script, game>>

\* ThreadSafeHashTable._resize, lines 66-72
TSResize(c) ==
  /\ At(c, "resize")
  /\ capacity' = capacity * 2
  /\ buckets' = EmptyBuckets(capacity * 2)
  /\ size' = 0
  /\ stack' = SetTop(c, [Top(c) EXCEPT !.pc = "replay",
                                       !.pending = Flatten(buckets)])
  /\ UNCHANGED <<kind, lock, ref, amap, lastDone, todo, seed, script, game>>

\* ThreadSafeHashTable._resize, lines 74-76: self[key] = value for the next
\* old entry is a call of __setitem__; when none is left _resize returns and
\* so does the __setitem__ that called it.
TSReplay(c) ==
  /\ At(c, "replay")
  /\ LET f == Top(c)
     IN IF Len(f.pending) = 0
        THEN stack' = SetTop(c, [f EXCEPT !.pc = "exit"])
        ELSE stack' = Push(SetTop(c, [f EXCEPT !.pending = Tail(@)]), c,
                           Frame("set", Head(f.pending)[1], Head(f.pending)[2]))
  /\ UNCHANGED <<kind, capacity, size, buckets, lock, ref, amap, lastDone, todo, seed, script, game>>

\* ThreadSafeHashTable.__getitem__, lines 115-119
TSGetItem(c) ==
  /\ AtOp(c, "get", "body")
  /\ LET f == Top(c)
         bucket == buckets[Hash(Cur, f.key) + 1]
         i == FindIdx(bucket, f.key)
     IN stack' = SetTop(c, [f EXCEPT !.pc = "exit",
                   !.res = IF i > 0 THEN ValueRes(bucket[i][2])
                           ELSE KeyError(f.key)])
  /\ UNCHANGED <<kind, capacity, size, buckets, lock, ref, amap, lastDone, todo, seed, script, game>>

\* ThreadSafeHashTable.__delitem__, lines 132-141
TSDelItem(c) ==
  /\ AtOp(c, "del", "body")
  /\ LET f == Top(c)
         index == Hash(Cur, f.key)
         bucket == buckets[index + 1]
         i == FindIdx(bucket, f.key)
     IN IF i > 0
        THEN /\ buckets' = [buckets EXCEPT ![index + 1] = RemoveAt(bucket, i)]
             /\ size' = size - 1
             /\ stack' = SetTop(c, [f EXCEPT !.pc = "exit"])
        ELSE /\ UNCHANGED <<buckets, size>>
             /\ stack' = SetTop(c, [f EXCEPT !.pc = "exit",
                                             !.res = KeyError(f.key)])
  /\ UNCHANGED <<kind, capacity, lock, ref, amap, lastDone, todo, seed, script, game>>

\* ThreadSafeHashTable.__contains__, lines 154-155
TSContains(c) ==
  /\ AtOp(c, "contains", "body")
  /\ LET f == Top(c)
         bucket == buckets[Hash(Cur, f.key) + 1]
     IN stack' = SetTop(c, [f EXCEPT !.pc = "exit",
                   !.res = BoolRes(\E i \in 1..Len(bucket) :
                                     bucket[i][1] = f.key)])
  /\ UNCHANGED <<kind, capacity, size, buckets, lock, ref, amap, lastDone, todo, seed, script, game>>

\* ThreadSafeHashTable.__len__, line 165
TSLen(c) ==
  /\ AtOp(c, "len", "body")
  /\ stack' = SetTop(c, [Top(c) EXCEPT !.pc = "exit", !.res = IntRes(size)])
  /\ UNCHANGED <<kind, capacity, size, buckets, lock, ref, amap, lastDone, todo, seed, script, game>>

\* ThreadSafeHashTable.__iter__, line 175: the traversal starts at bucket 0,
\* inside the with block.  pending is what the traversal has still to visit;
\* the buckets do not change while the lock is held, so it is the rest of
\* the buckets as they are.
TSIter(c) ==
  /\ AtOp(c, "iter", "body")
  /\ stack' = SetTop(c, [Top(c) EXCEPT !.pc = "yield",
                                       !.pending = Flatten(buckets),
                                       !.res = KeysRes(<<>>)])
  /\ UNCHANGED <<kind, capacity, size, buckets, lock, ref, amap, lastDone, todo, seed, script, game>>

\* ThreadSafeHashTable.__iter__, lines 176-177: yield the next key, the lock
\* still held, or run off the last bucket and leave the with block.
TSYield(c) ==
  /\ At(c, "yield")
  /\ Depth(c) = 1
  /\ LET f == Top(c)
     IN IF Len(f.pending) = 0
        THEN stack' = SetTop(c, [f EXCEPT !.pc = "exit"])
        ELSE stack' = SetTop(c, [f EXCEPT
                        !.pending = Tail(@),
                        !.res = KeysRes(Append(f.res.v, Head(f.pending)[1]))])
  /\ UNCHANGED <<kind, capacity, size, buckets, lock, ref, amap, lastDone, todo, seed, script, game>>

\* Leaving the with block, by return or by raise: the lock is released and
\* the call hands its result to its caller.
TSReturn(c) ==
  /\ At(c, "exit")
  /\ lock' = FREE
  /\ stack' = Pop(c)
  /\ lastDone' = IF Depth(c) = 1
                 THEN Done(Top(c).op, Top(c).key, Top(c).val, Top(c).res,
                           Top(c).pre)
                 ELSE lastDone
  /\ UNCHANGED <<kind, capacity, size, buckets, ref, amap, todo, seed, script, game>>

\* ------------------------------------------------------------- scenarios
\* A scenario fixes what each context does: todo[c] is the sequence of
\* <<key, value>> pairs context c still has to set, in order.  script names
\* the scenario and the capacity the table was built with ("free": clients
\* call what they like).

\* for i in range(first, last + 1): table[f"key{i}"] = i
RECURSIVE Inserts(_, _)
Inserts(first, last) ==
  IF first > last THEN <<>>
  ELSE <<<<StrKey(first), first>>>> \o Inserts(first + 1, last)

\* One owner inserts key0..key19 (test_collision_and_resize, and the same with
\* the default capacity).
SingleOwner == [c \in Contexts |-> IF c = 1 THEN Inserts(0, ScenarioKeys - 1)
                                  ELSE <<>>]

\* Every context inserts its own range of KeysPerWriter keys, as the writers
\* of test_parallel_writes_no_data_loss do with range(i * 50, (i + 1) * 50).
Writers == [c \in Contexts |->
              Inserts((c - 1) * KeysPerWriter, c * KeysPerWriter - 1)]

WriterCapacities == 1..(2 * NumContexts * KeysPerWriter)

\* The owner of a HashTable makes the next call of its scenario.
HTScriptSet ==
  /\ kind = "HashTable"
  /\ todo[1] # <<>>
  /\ HTStep("set", Head(todo[1])[1], Head(todo[1])[2])
  /\ todo' = [todo EXCEPT ![1] = Tail(@)]
  /\ UNCHANGED <<kind, lock, stack, ref, seed, script, game>>

\* Context c's next call of its scenario, or the pending call of _resize,
\* enters its with block.
ScriptAcquire(c) ==
  /\ TSEnter(c, IF todo[c] = <<>> THEN {}
                ELSE {Frame("set", Head(todo[c])[1], Head(todo[c])[2])})
  /\ todo' = IF Idle(c) THEN [todo EXCEPT ![c] = Tail(@)] ELSE todo

ScriptInit ==
  /\ seed \in 0..MaxSeed
  /\ \/ /\ kind \in {"HashTable", "ThreadSafeHashTable"}
        /\ capacity \in {ScenarioSmallCapacity, DefaultCapacity}
        /\ todo = SingleOwner
        /\ script = [name |-> "owner", capacity |-> capacity]
     \/ /\ kind = "ThreadSafeHashTable"
        /\ capacity \in WriterCapacities
        /\ todo = Writers
        /\ script = [name |-> "writers", capacity |-> capacity]
  /\ size = 0
  /\ buckets = EmptyBuckets(capacity)
  /\ lock = FREE
  /\ stack = [c \in Contexts |-> <<>>]
  /\ ref = NewTable(capacity)
  /\ amap = {}
  /\ lastDone = Done("none", 0, 0, NoneRes, NoTable)
  /\ game = NoGame

ScriptNext ==
  \/ HTScriptSet
  \/ \E c \in Contexts : ScriptAcquire(c)
  \/ \E c \in Contexts : TSSetItem(c)
  \/ \E c \in Contexts : TSResize(c)
  \/ \E c \in Contexts : TSReplay(c)
  \/ \E c \in Contexts : TSReturn(c)

SpecScript == ScriptInit /\ [][ScriptNext]_vars

\* ---------------------------------------------------------- specification
\* HashTable(capacity) or ThreadSafeHashTable(capacity, manager) just built.
Init ==
  /\ kind \in {"HashTable", "ThreadSafeHashTable"}
  /\ capacity \in InitCapacities
  /\ size = 0
  /\ buckets = EmptyBuckets(capacity)
  /\ lock = FREE
  /\ stack = [c \in Contexts |-> <<>>]
  /\ ref = NewTable(capacity)
  /\ amap = {}
  /\ lastDone = Done("none", 0, 0, NoneRes, NoTable)
  /\ game = NoGame
  /\ todo = [c \in Contexts |-> <<>>]
  /\ seed = 1
  /\ script = [name |-> "free", capacity |-> capacity]

Next ==
  \/ HTSetItem
  \/ HTGetItem
  \/ HTDelItem
  \/ HTContains
  \/ HTLen
  \/ HTIter
  \/ \E c \in Contexts : TSAcquire(c)
  \/ \E c \in Contexts : TSSetItem(c)
  \/ \E c \in Contexts : TSResize(c)
  \/ \E c \in Contexts : TSReplay(c)
  \/ \E c \in Contexts : TSGetItem(c)
  \/ \E c \in Contexts : TSDelItem(c)
  \/ \E c \in Contexts : TSContains(c)
  \/ \E c \in Contexts : TSLen(c)
  \/ \E c \in Contexts : TSIter(c)
  \/ \E c \in Contexts : TSYield(c)
  \/ \E c \in Contexts : TSReturn(c)

Spec == Init /\ [][Next]_vars

\* ------------------------------------------------ repr, items() and values()
\* ThreadSafeHashTable inherits items() and values() from MutableMapping:
\* their traversal is `for key in self: ... self[key]`, a key iteration with
\* a __getitem__ for every key it yields.  __repr__ is
\* `with self._lock: return repr(dict(self.items()))`.
ViewOps == {"items", "values"}

\* list(table.items()) or list(table.values()) begins: the view asks the
\* table for its key iterator and for the first key, which takes __iter__
\* up to its `with self._lock`.
ViewCall(c) ==
  /\ Idle(c)
  /\ \E op \in ViewOps :
       stack' = [stack EXCEPT ![c] =
                   <<[Frame(op, 0, 0) EXCEPT !.pc = "next",
                                             !.res = PairsRes(<<>>)],
                     Frame("iter", 0, 0)>>]
  /\ UNCHANGED <<kind, capacity, size, buckets, lock, ref, amap, lastDone, todo, seed, script, game>>

\* ThreadSafeHashTable.__repr__, line 187, inside its with block:
\* dict(self.items()) starts the key iteration, as a view does.
TSRepr(c) ==
  /\ AtOp(c, "repr", "body")
  /\ stack' = Push(SetTop(c, [Top(c) EXCEPT !.pc = "next",
                                            !.res = PairsRes(<<>>)]),
                   c, Frame("iter", 0, 0))
  /\ UNCHANGED <<kind, capacity, size, buckets, lock, ref, amap, lastDone, todo, seed, script, game>>

\* ThreadSafeHashTable.__iter__, lines 176-177, driven by a view: it yields
\* the next key and stays suspended inside its with block while the view
\* calls self[key]; or it runs off the last bucket and leaves the with block.
TSYieldToView(c) ==
  /\ At(c, "yield")
  /\ Depth(c) >= 2
  /\ LET f == Top(c)
     IN IF Len(f.pending) = 0
        THEN stack' = SetTop(c, [f EXCEPT !.pc = "exit"])
        ELSE stack' = Push(SetTop(c, [f EXCEPT !.pending = Tail(@)]), c,
                           Frame("get", Head(f.pending)[1], 0))
  /\ UNCHANGED <<kind, capacity, size, buckets, lock, ref, amap, lastDone, todo, seed, script, game>>

\* The key iteration is exhausted: items() / values() has been traversed,
\* and __repr__ is about to return from its with block.
ViewReturn(c) ==
  /\ At(c, "next")
  /\ IF Top(c).op \in ViewOps
     THEN /\ stack' = Pop(c)
          /\ lastDone' = Done(Top(c).op, 0, 0, Top(c).res, Cur)
     ELSE /\ stack' = SetTop(c, [Top(c) EXCEPT !.pc = "exit"])
          /\ UNCHANGED lastDone
  /\ UNCHANGED <<kind, capacity, size, buckets, lock, ref, amap, todo, seed, script, game>>

\* The calls of the clients here: set, repr, and the two views.
ViewClientCalls ==
  {Frame("set", k, v) : k \in Keys, v \in Values} \cup {Frame("repr", 0, 0)}

ViewAcquire(c) ==
  /\ TSEnter(c, ViewClientCalls)
  /\ UNCHANGED todo

ViewsInit ==
  /\ kind = "ThreadSafeHashTable"
  /\ Init

ViewsNext ==
  \/ \E c \in Contexts : ViewAcquire(c)
  \/ \E c \in Contexts : ViewCall(c)
  \/ \E c \in Contexts : TSSetItem(c)
  \/ \E c \in Contexts : TSResize(c)
  \/ \E c \in Contexts : TSReplay(c)
  \/ \E c \in Contexts : TSRepr(c)
  \/ \E c \in Contexts : TSIter(c)
  \/ \E c \in Contexts : TSYieldToView(c)
  \/ \E c \in Contexts : ViewReturn(c)
  \/ \E c \in Contexts : TSReturn(c)

SpecViews == ViewsInit /\ [][ViewsNext]_vars

\* --------------------------------------------- writers that bypass the class
\* test_parallel_writes_no_data_loss and test_concurrent_read_write hand the
\* table's _capacity, _size, _buckets and _lock to processes that work on
\* them directly.  script.writers are the contexts that write, each its own
\* keys; the other contexts read.  script.initial is the size of the table
\* when the processes start.

\* for i in range(50): ht[i] = i  -- the table the processes start from
\* (none of these sets crosses the load threshold)
RECURSIVE Preload(_, _)
Preload(t, n) ==
  IF n = 0 THEN t ELSE SetItem(Preload(t, n - 1), n - 1, n - 1)

\* Entering `with lock:` without waiting for the lock to be free.
DWAcquireNoWait(c) ==
  /\ Idle(c)
  /\ todo[c] # <<>>
  /\ stack' = Push(stack, c, [Frame("append", Head(todo[c])[1],
                                    Head(todo[c])[2]) EXCEPT !.pc = "body"])
  /\ todo' = [todo EXCEPT ![c] = Tail(@)]
  /\ lock' = c
  /\ UNCHANGED <<kind, capacity, size, buckets, ref, amap, lastDone, seed, script, game>>

\* write_data / writer: `with lock:` for the next key of the range
DWAcquire(c) ==
  /\ lock = FREE
  /\ Idle(c)
  /\ todo[c] # <<>>
  /\ stack' = Push(stack, c, [Frame("append", Head(todo[c])[1],
                                    Head(todo[c])[2]) EXCEPT !.pc = "body"])
  /\ todo' = [todo EXCEPT ![c] = Tail(@)]
  /\ lock' = c
  /\ UNCHANGED <<kind, capacity, size, buckets, ref, amap, lastDone, seed, script, game>>

\* index = hash(key) % capacity.value; bucket = buckets[index];
\* bucket.append((key, value))
DWAppend(c) ==
  /\ AtOp(c, "append", "body")
  /\ buckets' = [buckets EXCEPT ![Hash(Cur, Top(c).key) + 1] =
                   Append(@, <<Top(c).key, Top(c).val>>)]
  /\ stack' = SetTop(c, [Top(c) EXCEPT !.pc = "incr"])
  /\ UNCHANGED <<kind, capacity, size, lock, ref, amap, lastDone, todo, seed, script, game>>

\* size_val.value += 1, first half: the process fetches the shared value
DWReadSize(c) ==
  /\ AtOp(c, "append", "incr")
  /\ stack' = SetTop(c, [Top(c) EXCEPT !.pc = "store", !.res = IntRes(size)])
  /\ UNCHANGED <<kind, capacity, size, buckets, lock, ref, amap, lastDone, todo, seed, script, game>>

\* size_val.value += 1, second half: it stores what it fetched, plus one
DWWriteSize(c) ==
  /\ AtOp(c, "append", "store")
  /\ size' = Top(c).res.v + 1
  /\ stack' = SetTop(c, [Top(c) EXCEPT !.pc = "exit", !.res = NoneRes])
  /\ UNCHANGED <<kind, capacity, buckets, lock, ref, amap, lastDone, todo, seed, script, game>>

\* reader: `with lock:` for one of the preloaded keys
DRAcquire(c) ==
  /\ lock = FREE
  /\ Idle(c)
  /\ c \notin script.writers
  /\ \E k \in 0..(MaxPreload - 1) :
       stack' = Push(stack, c, [Frame("peek", k, 0) EXCEPT !.pc = "body"])
  /\ lock' = c
  /\ UNCHANGED <<kind, capacity, size, buckets, ref, amap, lastDone, todo, seed, script, game>>

\* reader: any(k == i for k, _ in list(buckets[index]))
DRRead(c) ==
  /\ AtOp(c, "peek", "body")
  /\ LET bucket == buckets[Hash(Cur, Top(c).key) + 1]
     IN stack' = SetTop(c, [Top(c) EXCEPT !.pc = "exit",
                   !.res = BoolRes(\E i \in 1..Len(bucket) :
                                     bucket[i][1] = Top(c).key)])
  /\ UNCHANGED <<kind, capacity, size, buckets, lock, ref, amap, lastDone, todo, seed, script, game>>

DirectInit ==
  /\ kind = "ThreadSafeHashTable"
  /\ seed \in 0..MaxSeed
  /\ capacity \in InitCapacities
  /\ \E n \in 0..MaxPreload :
       /\ ~OverLoad(n, capacity)
       /\ size = n
       /\ buckets = Preload(NewTable(capacity), n).buckets
  /\ \E w \in (SUBSET Contexts) \ {{}} :
       /\ todo = [c \in Contexts |-> IF c \in w THEN Writers[c] ELSE <<>>]
       /\ script = [name |-> "direct", capacity |-> capacity,
                    writers |-> w, initial |-> size]
  /\ lock = FREE
  /\ stack = [c \in Contexts |-> <<>>]
  /\ ref = NewTable(capacity)
  /\ amap = {}
  /\ lastDone = Done("none", 0, 0, NoneRes, NoTable)
  /\ game = NoGame

DirectNext ==
  \/ \E c \in Contexts : DWAcquire(c)
  \/ \E c \in Contexts : DWAppend(c)
  \/ \E c \in Contexts : DWReadSize(c)
  \/ \E c \in Contexts : DWWriteSize(c)
  \/ \E c \in Contexts : DRAcquire(c)
  \/ \E c \in Contexts : DRRead(c)
  \/ \E c \in Contexts : TSReturn(c)

SpecDirect == DirectInit /\ [][DirectNext]_vars

\* ------------------------------------------- tables built with any capacity
\* __init__ takes whatever capacity it is given: for capacity <= 0,
\* range(capacity) is empty and the table has no bucket at all.
AnyCapacities == (0 - MaxBadCapacity)..MaxInitCapacity

\* The operations that begin with index = self._hash(key).
KeyedOps == {"set", "get", "del", "contains"}

\* A keyed operation on a table with capacity <= 0: _hash raises
\* ZeroDivisionError when capacity is 0; when capacity is negative,
\* hash(key) % capacity is some index and self._buckets[index], on the empty
\* list, raises IndexError.  Nothing has been touched when the error is
\* raised.
BadCall(op, k, v) ==
  Done(op, k, v, IF capacity = 0 THEN ZeroDivisionError ELSE IndexError, Cur)

\* A HashTable with capacity <= 0 is asked for a key.
HTBadCall ==
  /\ kind = "HashTable"
  /\ capacity <= 0
  /\ \E op \in KeyedOps, k \in Keys, v \in Values :
       lastDone' = BadCall(op, k, IF op = "set" THEN v ELSE 0)
  /\ UNCHANGED <<kind, capacity, size, buckets, lock, stack, ref, amap, todo, seed, script, game>>

\* A ThreadSafeHashTable with capacity <= 0 is asked for a key by context c:
\* the call takes the lock, raises on its first line inside the with block,
\* and the with block releases the lock.
TSBadCall(c) ==
  /\ kind = "ThreadSafeHashTable"
  /\ capacity <= 0
  /\ lock = FREE /\ Idle(c)
  /\ \E op \in KeyedOps, k \in Keys, v \in Values :
       lastDone' = BadCall(op, k, IF op = "set" THEN v ELSE 0)
  /\ UNCHANGED <<kind, capacity, size, buckets, lock, stack, ref, amap, todo, seed, script, game>>

\* HashTable(capacity) or ThreadSafeHashTable(capacity, manager) just built,
\* with any int for capacity.
InitAnyCapacity ==
  /\ kind \in {"HashTable", "ThreadSafeHashTable"}
  /\ capacity \in AnyCapacities
  /\ size = 0
  /\ buckets = EmptyBuckets(capacity)
  /\ lock = FREE
  /\ stack = [c \in Contexts |-> <<>>]
  /\ ref = NewTable(capacity)
  /\ amap = {}
  /\ lastDone = Done("none", 0, 0, NoneRes, NoTable)
  /\ game = NoGame
  /\ todo = [c \in Contexts |-> <<>>]
  /\ seed = 1
  /\ script = [name |-> "free", capacity |-> capacity]

\* The calls on a table with buckets, as in Next.
GoodCall == capacity > 0 /\ Next

NextAnyCapacity ==
  \/ GoodCall
  \/ HTBadCall
  \/ \E c \in Contexts : TSBadCall(c)

SpecAnyCapacity == InitAnyCapacity /\ [][NextAnyCapacity]_vars

\* ------------------------------------------------------- unhashable keys
\* A key such as a list: hash(key) raises TypeError("unhashable type").
UnhashableKeys == {0 - StrBase}

\* raise TypeError(...), out of hash(key)
TypeError == [tag |-> "TypeError", v |-> 0]

\* A keyed operation that counts a set before it computes the index.
ApplyKeyedCountsFirst(t, op, k, v) ==
  IF k \in UnhashableKeys
  THEN [t |-> IF op = "set" THEN [t EXCEPT !.size = t.size + 1] ELSE t,
        res |-> TypeError]
  ELSE Apply(t, op, k, v)

\* A keyed operation from its first line, index = self._hash(key): hash(key)
\* raises for an unhashable key, and nothing else has run.
ApplyKeyed(t, op, k, v) ==
  IF k \in UnhashableKeys
  THEN [t |-> t, res |-> TypeError]
  ELSE Apply(t, op, k, v)

\* A HashTable is asked for an unhashable key.
HTUnhashable ==
  /\ kind = "HashTable"
  /\ \E op \in KeyedOps, k \in UnhashableKeys, v \in Values :
       LET w == IF op = "set" THEN v ELSE 0
           r == ApplyKeyed(Cur, op, k, w)
       IN /\ capacity' = r.t.capacity
          /\ size' = r.t.size
          /\ buckets' = r.t.buckets
          /\ lastDone' = Done(op, k, w, r.res, Cur)
  /\ UNCHANGED <<kind, lock, stack, ref, amap, todo, seed, script, game>>

\* Context c calls a keyed operation of the shared table with an unhashable
\* key and enters its with block; index = self._hash(key) is its next line.
TSUnhashableAcquire(c) ==
  /\ kind = "ThreadSafeHashTable"
  /\ lock = FREE
  /\ Idle(c)
  /\ \E op \in KeyedOps, k \in UnhashableKeys, v \in Values :
       stack' = Push(stack, c,
                     [Frame(op, k, IF op = "set" THEN v ELSE 0)
                        EXCEPT !.pc = "hash", !.pre = Cur,
                               !.expect = TypeError])
  /\ lock' = c
  /\ UNCHANGED <<kind, capacity, size, buckets, ref, amap, lastDone, todo, seed, script, game>>

\* index = self._hash(key) raises: the call leaves its with block with the
\* exception.
TSHashRaises(c) ==
  /\ At(c, "hash")
  /\ stack' = SetTop(c, [Top(c) EXCEPT !.pc = "exit", !.res = TypeError])
  /\ UNCHANGED <<kind, capacity, size, buckets, lock, ref, amap, lastDone, todo, seed, script, game>>

UnhashableNext ==
  \/ Next
  \/ HTUnhashable
  \/ \E c \in Contexts : TSUnhashableAcquire(c)
  \/ \E c \in Contexts : TSHashRaises(c)

SpecUnhashable == Init /\ [][UnhashableNext]_vars

\* ------------------------------------------------------ one contended key
\* Contexts call set, or set and delete, on one key of a shared table at the
\* same time.  The table was filled beforehand with up to MaxPreload other
\* keys, by sets that did not resize it.

\* the key the contexts contend for: none of the preloaded ones
ContendedKey == MaxPreload

\* "sets": every context c calls table[ContendedKey] = c.
\* "set_delete": context 1 calls table[ContendedKey] = 1 and context 2 calls
\* del table[ContendedKey].
ContendedCalls(mode) ==
  [c \in Contexts |->
     IF mode = "sets" THEN <<<<"set", ContendedKey, c>>>>
     ELSE IF c = 1 THEN <<<<"set", ContendedKey, 1>>>>
     ELSE IF c = 2 THEN <<<<"del", ContendedKey, 0>>>>
     ELSE <<>>]

\* Context c's call enters its with block, or the pending call of _resize
\* does.
ContendedAcquire(c) ==
  /\ TSEnter(c, IF todo[c] = <<>> THEN {}
                ELSE {Frame(Head(todo[c])[1], Head(todo[c])[2],
                            Head(todo[c])[3])})
  /\ todo' = IF Idle(c) THEN [todo EXCEPT ![c] = Tail(@)] ELSE todo

ContendedInit ==
  /\ kind = "ThreadSafeHashTable"
  /\ seed \in 0..MaxSeed
  /\ capacity \in InitCapacities
  /\ \E n \in 0..MaxPreload, mode \in {"sets", "set_delete"},
        present \in BOOLEAN :
       /\ mode = "sets" => ~present
       /\ ~OverLoad(n + (IF present THEN 1 ELSE 0), capacity)
       /\ LET t == IF present
                   THEN SetItem(Preload(NewTable(capacity), n), ContendedKey, 0)
                   ELSE Preload(NewTable(capacity), n)
          IN /\ size = t.size
             /\ buckets = t.buckets
             /\ ref = t
             /\ amap = {Flatten(t.buckets)[i] :
                          i \in 1..Len(Flatten(t.buckets))}
             /\ script = [name |-> "contended", capacity |-> capacity,
                          mode |-> mode, initial |-> t]
       /\ todo = ContendedCalls(mode)
  /\ lock = FREE
  /\ stack = [c \in Contexts |-> <<>>]
  /\ lastDone = Done("none", 0, 0, NoneRes, NoTable)
  /\ game = NoGame

ContendedNext ==
  \/ \E c \in Contexts : ContendedAcquire(c)
  \/ \E c \in Contexts : TSSetItem(c)
  \/ \E c \in Contexts : TSDelItem(c)
  \/ \E c \in Contexts : TSResize(c)
  \/ \E c \in Contexts : TSReplay(c)
  \/ \E c \in Contexts : TSReturn(c)

SpecContended == ContendedInit /\ [][ContendedNext]_vars

\* ------------------------------------------------- hash(key) per process
\* hash(key) % capacity is computed by the calling process.  For an int it
\* is the same in every process; for a str it depends on the hash seed of
\* the process, which a forked child shares with its parent and a spawned
\* process (or one started on its own) draws for itself.  script.seeds[c] is
\* the seed of the process of context c.
PyHashIn(c, k) ==
  IF k >= StrBase THEN (k - StrBase) * script.seeds[c]
  ELSE IF k = -1 THEN -2 ELSE k

\* _hash as context c computes it
HashIn(c, k) == PyHashIn(c, k) % capacity

\* the keys the processes write and read: strings, and an int
ProcessKeys ==
  {StrKey(i) : i \in 0..(NumContexts * KeysPerWriter - 1)} \cup {MaxKey}

\* write_data with a bucket index that does not depend on the key.
ProcWriteFirstBucket(c) ==
  /\ lock = FREE
  /\ todo[c] # <<>>
  /\ LET key == Head(todo[c])[1]
         value == Head(todo[c])[2]
     IN /\ buckets' = [buckets EXCEPT ![1] = Append(@, <<key, value>>)]
        /\ size' = size + 1
        /\ lastDone' = Done("append", key, value, NoneRes, Cur)
  /\ todo' = [todo EXCEPT ![c] = Tail(@)]
  /\ UNCHANGED <<kind, capacity, lock, stack, ref, amap, seed, script, game>>

\* write_data, lines 63-67, in the process of context c: under the lock,
\* index = hash(key) % capacity.value; bucket.append((key, value));
\* size_val.value += 1
ProcWrite(c) ==
  /\ lock = FREE
  /\ todo[c] # <<>>
  /\ LET key == Head(todo[c])[1]
         value == Head(todo[c])[2]
     IN /\ buckets' = [buckets EXCEPT
                         ![HashIn(c, key) + 1] = Append(@, <<key, value>>)]
        /\ size' = size + 1
        /\ lastDone' = Done("append", key, value, NoneRes, Cur)
  /\ todo' = [todo EXCEPT ![c] = Tail(@)]
  /\ UNCHANGED <<kind, capacity, lock, stack, ref, amap, seed, script, game>>

\* ThreadSafeHashTable.__getitem__ in the process of context c
ProcGetItem(c) ==
  /\ lock = FREE
  /\ \E k \in ProcessKeys :
       LET bucket == buckets[HashIn(c, k) + 1]
           i == FindIdx(bucket, k)
       IN lastDone' = Done("get", k, c,
                           IF i > 0 THEN ValueRes(bucket[i][2])
                           ELSE KeyError(k), Cur)
  /\ UNCHANGED <<kind, capacity, size, buckets, lock, stack, ref, amap, todo, seed, script, game>>

\* ThreadSafeHashTable.__contains__ in the process of context c
ProcContains(c) ==
  /\ lock = FREE
  /\ \E k \in ProcessKeys :
       LET bucket == buckets[HashIn(c, k) + 1]
       IN lastDone' = Done("contains", k, c,
                           BoolRes(\E i \in 1..Len(bucket) : bucket[i][1] = k),
                           Cur)
  /\ UNCHANGED <<kind, capacity, size, buckets, lock, stack, ref, amap, todo, seed, script, game>>

\* Every context is a process with its hash seed; context 1 also writes the
\* int key, and every context writes its range of string keys.
ProcessesInit ==
  /\ kind = "ThreadSafeHashTable"
  /\ seed = 0
  /\ capacity \in InitCapacities
  /\ size = 0
  /\ buckets = EmptyBuckets(capacity)
  /\ \E seeds \in [Contexts -> 0..MaxSeed] :
       script = [name |-> "processes", capacity |-> capacity, seeds |-> seeds]
  /\ todo = [c \in Contexts |->
               IF c = 1 THEN <<<<MaxKey, MaxVal>>>> \o Writers[c]
               ELSE Writers[c]]
  /\ lock = FREE
  /\ stack = [c \in Contexts |-> <<>>]
  /\ ref = NewTable(capacity)
  /\ amap = {}
  /\ lastDone = Done("none", 0, 0, NoneRes, NoTable)
  /\ game = NoGame

ProcessesNext ==
  \/ \E c \in Contexts : ProcWrite(c)
  \/ \E c \in Contexts : ProcGetItem(c)
  \/ \E c \in Contexts : ProcContains(c)

SpecProcesses == ProcessesInit /\ [][ProcessesNext]_vars

\* ------------------------------------------- inherited mapping operations
\* ThreadSafeHashTable inherits setdefault and pop from MutableMapping, which
\* builds them from self[key], self[key] = value and del self[key]:
\*   setdefault(key, default): try: return self[key]
\*                             except KeyError: self[key] = default
\*                             return default
\*   pop(key): try: value = self[key]
\*             except KeyError: raise
\*             else: del self[key]; return value
\* A call of one of them is the bottom frame of its context; the call of the
\* table it is making is the frame above.  The bottom frame's pc is the
\* operation of the table it is in ("get", "set", "del"), then "done"; its
\* pre is the table as its lookup left it, its res what it returns.
MixinOps == {"setdefault", "pop"}

\* Context c calls table.setdefault(ContendedKey, c) or
\* table.pop(ContendedKey), which calls self[key].
MixinCall(c) ==
  /\ Idle(c)
  /\ \E op \in MixinOps :
       stack' = [stack EXCEPT ![c] =
                   <<[Frame(op, ContendedKey, IF op = "pop" THEN 0 ELSE c)
                        EXCEPT !.pc = "get"],
                     Frame("get", ContendedKey, 0)>>]
  /\ UNCHANGED <<kind, capacity, size, buckets, lock, ref, amap, lastDone, todo, seed, script, game>>

\* The call of the table that context c is waiting to make enters its with
\* block.
MixinAcquire(c) ==
  /\ ~Idle(c)
  /\ TSEnter(c, {})
  /\ UNCHANGED todo

\* What the mixin does when the call of the table it made comes back with
\* result r: the next call of the table it makes (a frame), or none when it
\* returns or raises.
MixinThen(outer, r) ==
  IF outer.pc = "get"
  THEN IF r.tag = "KeyError"
       THEN IF outer.op = "setdefault"
            THEN <<Frame("set", outer.key, outer.val)>>
            ELSE <<>>
       ELSE IF outer.op = "pop"
            THEN <<Frame("del", outer.key, 0)>>
            ELSE <<>>
  ELSE <<>>

\* What the mixin returns or raises, given the result r of the last call of
\* the table it made.
MixinResult(outer, r) ==
  IF outer.pc = "get" THEN r
  ELSE IF outer.pc = "set" THEN ValueRes(outer.val)
  ELSE IF r.tag = "KeyError" THEN r
  ELSE outer.res

\* The call of the table made by the mixin of context c leaves its with
\* block, which releases the lock, and the mixin goes on.
MixinStep(c) ==
  /\ At(c, "exit")
  /\ Depth(c) = 2
  /\ stack[c][1].op \in MixinOps
  /\ LET outer == stack[c][1]
         r == Top(c).res
         then == MixinThen(outer, r)
     IN stack' = [stack EXCEPT ![c] =
          IF then = <<>>
          THEN <<[outer EXCEPT !.pc = "done", !.res = MixinResult(outer, r)]>>
          ELSE <<[outer EXCEPT !.pc = then[1].op, !.res = r, !.pre = Cur]>>
                 \o then]
  /\ lock' = FREE
  /\ UNCHANGED <<kind, capacity, size, buckets, ref, amap, lastDone, todo, seed, script, game>>

\* A shared table of any initial capacity, empty or holding the key.
MappingInit ==
  /\ kind = "ThreadSafeHashTable"
  /\ seed \in 0..MaxSeed
  /\ capacity \in InitCapacities
  /\ \E present \in BOOLEAN :
       /\ ~OverLoad(IF present THEN 1 ELSE 0, capacity)
       /\ LET t == IF present THEN SetItem(NewTable(capacity), ContendedKey, 0)
                   ELSE NewTable(capacity)
          IN /\ size = t.size
             /\ buckets = t.buckets
             /\ ref = t
             /\ amap = {Flatten(t.buckets)[i] :
                          i \in 1..Len(Flatten(t.buckets))}
             /\ script = [name |-> "mapping", capacity |-> capacity,
                          initial |-> t]
  /\ todo = [c \in Contexts |-> <<>>]
  /\ lock = FREE
  /\ stack = [c \in Contexts |-> <<>>]
  /\ lastDone = Done("none", 0, 0, NoneRes, NoTable)
  /\ game = NoGame

MappingNext ==
  \/ \E c \in Contexts : MixinCall(c)
  \/ \E c \in Contexts : MixinAcquire(c)
  \/ \E c \in Contexts : TSGetItem(c)
  \/ \E c \in Contexts : TSSetItem(c)
  \/ \E c \in Contexts : TSDelItem(c)
  \/ \E c \in Contexts : TSResize(c)
  \/ \E c \in Contexts : TSReplay(c)
  \/ \E c \in Contexts : MixinStep(c)

SpecMapping == MappingInit /\ [][MappingNext]_vars

\* ------------------------------------------------------------------ Yahtzee
\* project/Assignment_4: scoreboard.py and Game.py.

\* CombinationThreshold and Bonus
PAIR == 2
THREE_OF_A_KIND == 3
FOUR_OF_A_KIND == 4
FULL_HOUSE_THREE == 3
FULL_HOUSE_TWO == 2
POKER == 5
STAGE_ONE_BONUS == 50
POKER_BONUS == 50
FIRST_THROW_MULTIPLIER == 2

\* Scoreboard.STAGE_1, STAGE_2, CATEGORIES (a Category is its value)
STAGE_1 == <<"ones", "twos", "threes", "fours", "fives", "sixes">>
STAGE_2 == <<"pair", "two_pairs", "three_of_a_kind", "four_of_a_kind",
             "small_straight", "large_straight", "even", "odd", "full_house",
             "poker", "chance">>
CATEGORIES == STAGE_1 \o STAGE_2

SeqSet(q) == {q[i] : i \in 1..Len(q)}

\* SmallStraight and LargeStraight
SmallStraight == {{1, 2, 3, 4}, {2, 3, 4, 5}, {3, 4, 5, 6}}
LargeStraight == {{1, 2, 3, 4, 5}, {2, 3, 4, 5, 6}}

\* raise ValueError(...)
ValueError == [tag |-> "ValueError", v |-> 0]

\* target_map[category]: ONES -> 1, ..., SIXES -> 6
TargetValue(category) == CHOOSE i \in 1..Len(STAGE_1) : STAGE_1[i] = category

\* Counter(dice_values)[value]
CountOf(dice_values, value) ==
  Cardinality({i \in 1..Len(dice_values) : dice_values[i] = value})

\* the counts that occur in counts.values()
CountValues(dice_values) ==
  {CountOf(dice_values, v) : v \in SeqSet(dice_values)}

RECURSIVE SumSeq(_)
SumSeq(q) == IF Len(q) = 0 THEN 0 ELSE Head(q) + SumSeq(Tail(q))

\* Scoreboard.score_stage_one
score_stage_one(category, dice_values) ==
  (CountOf(dice_values, TargetValue(category)) - THREE_OF_A_KIND)
    * TargetValue(category)

\* score_stage_two: whether the branch of the category sets combination_met
CombinationMet(category, dice_values) ==
  LET counts == CountValues(dice_values)
      unique_dice == SeqSet(dice_values)
  IN CASE category = "pair" -> \E n \in counts : n >= PAIR
       [] category = "two_pairs" ->
            \/ Cardinality({v \in unique_dice :
                              CountOf(dice_values, v) = PAIR}) >= PAIR
            \/ FOUR_OF_A_KIND \in counts
            \/ POKER \in counts
       [] category = "three_of_a_kind" -> \E n \in counts : n >= THREE_OF_A_KIND
       [] category = "four_of_a_kind" -> \E n \in counts : n >= FOUR_OF_A_KIND
       [] category = "small_straight" ->
            \E st \in SmallStraight : st \subseteq unique_dice
       [] category = "large_straight" ->
            \E st \in LargeStraight : unique_dice = st
       [] category = "even" ->
            \A i \in 1..Len(dice_values) : dice_values[i] % PAIR = 0
       [] category = "odd" ->
            \A i \in 1..Len(dice_values) : dice_values[i] % PAIR # 0
       [] category = "full_house" ->
            FULL_HOUSE_THREE \in counts /\ FULL_HOUSE_TWO \in counts
       [] category = "poker" -> POKER \in counts
       [] category = "chance" -> TRUE

\* Scoreboard.score_stage_two
score_stage_two(category, dice_values, first_throw) ==
  LET total_sum == SumSeq(dice_values)
      score == IF category = "poker" THEN total_sum + POKER_BONUS
               ELSE total_sum
  IN IF ~CombinationMet(category, dice_values) THEN 0
     ELSE IF first_throw /\ category # "chance"
          THEN IF category = "poker"
               THEN total_sum * FIRST_THROW_MULTIPLIER + POKER_BONUS
               ELSE score * FIRST_THROW_MULTIPLIER
          ELSE score

\* Scoreboard.score_for_category, for a category of CATEGORIES
score_for_category(category, dice_values, first_throw) ==
  IF category \in SeqSet(STAGE_1)
  THEN score_stage_one(category, dice_values)
  ELSE score_stage_two(category, dice_values, first_throw)

\* A Scoreboard: scores[c] is None for the categories outside filled, and
\* score[c] for those inside.
NewScoreboard ==
  [filled |-> {}, score |-> [c \in SeqSet(CATEGORIES) |-> 0]]

\* self.scores[category] = score
WithScore(board, category, score) ==
  [filled |-> board.filled \cup {category},
   score |-> [board.score EXCEPT ![category] = score]]

\* fill_category with `if self.scores[category]:` for its second check: a
\* stored score of 0 counts as unfilled.
fill_category_if_truthy(board, category, dice_values, first_throw) ==
  IF category \notin SeqSet(CATEGORIES)
  THEN [board |-> board, res |-> ValueError]
  ELSE IF category \in board.filled /\ board.score[category] # 0
  THEN [board |-> board, res |-> ValueError]
  ELSE LET score == score_for_category(category, dice_values, first_throw)
       IN [board |-> WithScore(board, category, score), res |-> IntRes(score)]

\* Scoreboard.fill_category: the scoreboard afterwards, and the points
\* returned or the ValueError raised
fill_category(board, category, dice_values, first_throw) ==
  IF category \notin SeqSet(CATEGORIES)
  THEN [board |-> board, res |-> ValueError]
  ELSE IF category \in board.filled
  THEN [board |-> board, res |-> ValueError]
  ELSE LET score == score_for_category(category, dice_values, first_throw)
       IN [board |-> WithScore(board, category, score), res |-> IntRes(score)]

\* sum(v for c, v in self.scores.items() if c in stage and v is not None)
RECURSIVE StageTotal(_, _)
StageTotal(board, stage) ==
  IF Len(stage) = 0 THEN 0
  ELSE (IF Head(stage) \in board.filled THEN board.score[Head(stage)] ELSE 0)
         + StageTotal(board, Tail(stage))

\* Scoreboard.get_stage_one_subtotal
get_stage_one_subtotal(board) == StageTotal(board, STAGE_1)

\* Scoreboard.get_total_score (Player.get_total_score returns it)
get_total_score(board) ==
  LET stage_one_total == get_stage_one_subtotal(board)
      stage_two_total == StageTotal(board, STAGE_2)
      bonus == IF stage_one_total >= 0 THEN STAGE_ONE_BONUS ELSE 0
  IN stage_one_total + stage_two_total + bonus

\* GameState(players) inside YahtzeeGame(players): n players with empty
\* scoreboards, round 0, player 0 to move, no winner (winner 0 is None, winner
\* p > 0 is players[p - 1]).  calls counts the calls of advance_turn, last
\* records the call made last.
NewGame(n) ==
  [players |-> n,
   scores |-> [p \in 1..n |-> NewScoreboard],
   current_round |-> 0,
   current_player_index |-> 0,
   winner |-> 0,
   calls |-> 0,
   last |-> [op |-> "none"]]

\* GameState.max_rounds
max_rounds == Len(CATEGORIES)

\* advance_turn that wraps when the index is greater than the number of
\* players.
advance_turn_late_wrap(g) ==
  LET index == g.current_player_index + 1
  IN IF index > g.players
     THEN [g EXCEPT !.current_player_index = 0,
                    !.current_round = g.current_round + 1]
     ELSE [g EXCEPT !.current_player_index = index]

\* GameState.advance_turn
advance_turn(g) ==
  LET index == g.current_player_index + 1
  IN IF index >= g.players
     THEN [g EXCEPT !.current_player_index = 0,
                    !.current_round = g.current_round + 1]
     ELSE [g EXCEPT !.current_player_index = index]

\* GameState.is_game_over
is_game_over(g) == g.current_round >= max_rounds

\* _determine_winner that takes winners[0] however many winners there are.
determine_winner_first(g) ==
  LET total(p) == get_total_score(g.scores[p])
      winners == {p \in 1..g.players : \A q \in 1..g.players :
                                         total(p) >= total(q)}
  IN CHOOSE p \in winners : \A q \in winners : p <= q

\* YahtzeeGame._determine_winner: the new value of self.winner
determine_winner(g) ==
  LET total(p) == get_total_score(g.scores[p])
      winners == {p \in 1..g.players : \A q \in 1..g.players :
                                         total(p) >= total(q)}
  IN IF Cardinality(winners) = 1 THEN CHOOSE p \in winners : TRUE ELSE 0

\* The tables are not involved in a game.
NoTables ==
  /\ kind = "none"
  /\ capacity = 0
  /\ size = 0
  /\ buckets = <<>>
  /\ lock = FREE
  /\ stack = [c \in Contexts |-> <<>>]
  /\ ref = NoTable
  /\ amap = {}
  /\ lastDone = Done("none", 0, 0, NoneRes, NoTable)
  /\ todo = [c \in Contexts |-> <<>>]
  /\ seed = 0
  /\ script = [name |-> "game", capacity |-> 0]

\* -- one Scoreboard and its fill_category
\* the lists of dice values handed to fill_category: five of a kind, and a
\* large straight without a pair
Rolls == {<<1, 1, 1, 1, 1>>, <<2, 3, 4, 5, 6>>}

\* sb.fill_category(category, dice_values, first_throw), with a Category or
\* with something that is none
FillCategory ==
  /\ \E category \in SeqSet(CATEGORIES) \cup {"unknown"}, dice_values \in Rolls,
        first_throw \in BOOLEAN :
       /\ \/ category \in game.scores[1].filled
          \/ Cardinality(game.scores[1].filled) < MaxFilled
       /\ LET r == fill_category(game.scores[1], category, dice_values,
                                 first_throw)
          IN game' = [game EXCEPT
                        !.scores[1] = r.board,
                        !.last = [op |-> "fill_category",
                                  category |-> category,
                                  dice_values |-> dice_values,
                                  first_throw |-> first_throw,
                                  res |-> r.res]]
  /\ UNCHANGED tableVars

ScoreboardInit ==
  /\ NoTables
  /\ game = NewGame(1)

SpecScoreboard == ScoreboardInit /\ [][FillCategory]_vars

\* -- GameState and its advance_turn
AdvanceTurn ==
  /\ game.calls < max_rounds * game.players + ExtraCalls
  /\ game' = [advance_turn(game) EXCEPT !.calls = game.calls + 1,
                                        !.last = [op |-> "advance_turn"]]
  /\ UNCHANGED tableVars

GameStateInit ==
  /\ NoTables
  /\ \E n \in 1..MaxPlayers : game = NewGame(n)

SpecGameState == GameStateInit /\ [][AdvanceTurn]_vars

\* -- YahtzeeGame and its _determine_winner
\* the scores the scoreboards are given, and the categories they go to
ScoreSamples == {0 - 4, 30}
SampleCategories == {"fours", "chance"}

\* p.scoreboard.scores[category] = score, as test_winner_determination does
SetScore ==
  /\ \E p \in 1..game.players, category \in SampleCategories,
        score \in ScoreSamples :
       game' = [game EXCEPT
                  !.scores[p] = WithScore(game.scores[p], category, score),
                  !.last = [op |-> "set_score"]]
  /\ UNCHANGED tableVars

\* game._determine_winner()
DetermineWinner ==
  /\ game' = [game EXCEPT !.winner = determine_winner(game),
                          !.last = [op |-> "determine_winner"]]
  /\ UNCHANGED tableVars

WinnerNext == SetScore \/ DetermineWinner

SpecWinner == GameStateInit /\ [][WinnerNext]_vars

\* -- one Turn: roll_dice, can_reroll, finalize
\* the most rolls of a turn, and the sides of a die
MAX_ROLLS == 3
SIDES == 6

\* Turn(player, num_dice): the dice as Dice() made them, no roll yet
NewTurn(dice) == [dice |-> dice, roll_count |-> 0, current_values |-> <<>>]

\* roll_dice that refuses only when more than 3 rolls have been made.
roll_dice_one_more(turn, indices_to_roll, rolled) ==
  IF turn.roll_count > MAX_ROLLS
  THEN [turn |-> turn, res |-> ValueError]
  ELSE LET dice == [i \in 1..Len(turn.dice) |->
                      IF (i - 1) \in indices_to_roll THEN rolled[i]
                      ELSE turn.dice[i]]
       IN [turn |-> [dice |-> dice, roll_count |-> turn.roll_count + 1,
                     current_values |-> dice],
           res |-> KeysRes(dice)]

\* Turn.roll_dice: the dice whose index is in indices_to_roll (None is every
\* index) show what they rolled; indices out of range are skipped.
roll_dice(turn, indices_to_roll, rolled) ==
  IF turn.roll_count >= MAX_ROLLS
  THEN [turn |-> turn, res |-> ValueError]
  ELSE LET dice == [i \in 1..Len(turn.dice) |->
                      IF (i - 1) \in indices_to_roll THEN rolled[i]
                      ELSE turn.dice[i]]
       IN [turn |-> [dice |-> dice, roll_count |-> turn.roll_count + 1,
                     current_values |-> dice],
           res |-> KeysRes(dice)]

\* Turn.can_reroll
can_reroll(turn) == turn.roll_count < MAX_ROLLS

\* Turn.finalize: the player's scoreboard afterwards and the points returned
\* or the error raised
finalize(turn, board, category) ==
  IF turn.roll_count = 0
  THEN [board |-> board, res |-> ValueError]
  ELSE fill_category(board, category, turn.current_values,
                     turn.roll_count = 1)

\* A turn of a player with an empty scoreboard.
TurnInit ==
  /\ NoTables
  /\ \E dice \in [1..NumDice -> 1..SIDES] :
       game = [players |-> 1, scores |-> <<NewScoreboard>>,
               turn |-> NewTurn(dice), over |-> FALSE,
               last |-> [op |-> "none", res |-> NoneRes]]

\* turn.roll_dice(indices_to_roll), with any indices (one of them out of
\* range) and any outcome of the dice
RollDice ==
  /\ ~game.over
  /\ \E indices_to_roll \in SUBSET (0..NumDice),
        rolled \in [1..NumDice -> 1..SIDES] :
       LET r == roll_dice(game.turn, indices_to_roll, rolled)
       IN game' = [game EXCEPT !.turn = r.turn,
                               !.last = [op |-> "roll_dice", res |-> r.res]]
  /\ UNCHANGED tableVars

\* turn.finalize(category); the turn is over once it has scored
Finalize ==
  /\ ~game.over
  /\ \E category \in SeqSet(CATEGORIES) :
       LET r == finalize(game.turn, game.scores[1], category)
       IN game' = [game EXCEPT !.scores[1] = r.board,
                               !.over = (r.res # ValueError),
                               !.last = [op |-> "finalize", res |-> r.res]]
  /\ UNCHANGED tableVars

TurnNext == RollDice \/ Finalize

SpecTurn == TurnInit /\ [][TurnNext]_vars

\* -- YahtzeeGame.play_game with bot players
\* Turn(player) in play_turn: num_dice is left at its default
DEFAULT_NUM_DICE == 5

BotKinds == {"AggressiveBot", "CautiousBot", "RandomBot"}

\* raise IndexError(...): available[0] or random.choice on an empty list
NoCategory == "IndexError"

\* Scoreboard.get_available_categories, in the order of the scores dict
RECURSIVE AvailableOf(_, _)
AvailableOf(board, cats) ==
  IF Len(cats) = 0 THEN <<>>
  ELSE IF Head(cats) \in board.filled THEN AvailableOf(board, Tail(cats))
  ELSE <<Head(cats)>> \o AvailableOf(board, Tail(cats))

\* get_available_categories that returns every category, filled or not.
get_all_categories(board) == CATEGORIES

get_available_categories(board) == AvailableOf(board, CATEGORIES)

\* Scoreboard.is_complete
is_complete(board) == \A c \in SeqSet(CATEGORIES) : c \in board.filled

\* Counter(dice_values).most_common(): the values by falling count, equal
\* counts in the order of their first occurrence
FirstAt(dice_values, v) ==
  CHOOSE i \in 1..Len(dice_values) :
    /\ dice_values[i] = v
    /\ \A j \in 1..(i - 1) : dice_values[j] # v

ComesBefore(dice_values, u, v) ==
  \/ CountOf(dice_values, u) > CountOf(dice_values, v)
  \/ /\ CountOf(dice_values, u) = CountOf(dice_values, v)
     /\ FirstAt(dice_values, u) < FirstAt(dice_values, v)

most_common(dice_values) ==
  LET vs == SeqSet(dice_values)
  IN [i \in 1..Cardinality(vs) |->
        CHOOSE v \in vs :
          Cardinality({u \in vs : ComesBefore(dice_values, u, v)}) = i - 1]

\* Player._standard_reroll_logic: the indices of the dice to roll again
standard_reroll_logic(dice_values, goal_category) ==
  IF goal_category \in SeqSet(STAGE_1)
  THEN {i - 1 : i \in {j \in 1..Len(dice_values) :
                         dice_values[j] # TargetValue(goal_category)}}
  ELSE IF goal_category \in {"pair", "two_pairs", "three_of_a_kind",
                             "four_of_a_kind", "full_house", "poker", "chance"}
  THEN IF Len(dice_values) = 0 THEN {}
       ELSE {i - 1 : i \in {j \in 1..Len(dice_values) :
                              dice_values[j] # most_common(dice_values)[1]}}
  ELSE {}

\* AggressiveBot.decide_turn_goal: the first available category of the
\* highest potential score
RECURSIVE BestOf(_, _, _)
BestOf(available, dice_values, best) ==
  IF Len(available) = 0 THEN best
  ELSE BestOf(Tail(available), dice_values,
              IF score_for_category(Head(available), dice_values, FALSE)
                   > score_for_category(best, dice_values, FALSE)
              THEN Head(available) ELSE best)

AggressiveGoal(board, dice_values) ==
  LET available == get_available_categories(board)
  IN IF Len(available) = 0 THEN NoCategory
     ELSE BestOf(Tail(available), dice_values, Head(available))

\* CautiousBot.decide_turn_goal
RECURSIVE FirstPair(_, _, _)
FirstPair(common, dice_values, board) ==
  IF Len(common) = 0 THEN NoCategory
  ELSE IF /\ CountOf(dice_values, Head(common)) >= PAIR
          /\ STAGE_1[Head(common)] \notin board.filled
       THEN STAGE_1[Head(common)]
       ELSE FirstPair(Tail(common), dice_values, board)

CautiousGoal(board, dice_values) ==
  LET available == get_available_categories(board)
      paired == FirstPair(most_common(dice_values), dice_values, board)
      stage_one == AvailableOf(board, STAGE_1)
  IN IF paired # NoCategory THEN paired
     ELSE IF Len(stage_one) > 0 THEN Head(stage_one)
     ELSE IF "chance" \notin board.filled THEN "chance"
     ELSE IF Len(available) = 0 THEN NoCategory
     ELSE Head(available)

\* RandomBot.decide_turn_goal: random.choice(available), which the game's
\* random source makes the first or the last element
RandomGoal(board, choice) ==
  LET available == get_available_categories(board)
  IN IF Len(available) = 0 THEN NoCategory
     ELSE IF choice = "first" THEN available[1]
     ELSE available[Len(available)]

\* player.decide_turn_goal(dice)
decide_turn_goal(bot, board, dice_values, choice) ==
  IF bot = "AggressiveBot" THEN AggressiveGoal(board, dice_values)
  ELSE IF bot = "CautiousBot" THEN CautiousGoal(board, dice_values)
  ELSE RandomGoal(board, choice)

\* player.make_reroll_decision(dice, goal); RandomBot returns the
\* random.sample of the indices that the game's random source gives
make_reroll_decision(bot, dice_values, goal_category, sample) ==
  IF bot = "RandomBot" THEN sample
  ELSE standard_reroll_logic(dice_values, goal_category)

\* YahtzeeGame(players) with bots of the given kinds.  The random source of
\* the game is fixed when it begins: stream[k] is what the dice show when
\* they are rolled in the k-th roll of a turn, choice and sample are what
\* random.choice and random.sample give a RandomBot.  turns counts the
\* turns played; last keeps, of the turn played last, its number of rolls,
\* its category and the categories filled before it; turn is the Turn in
\* progress, goal the category chosen after its first roll.
NoTurn == [dice |-> <<>>, roll_count |-> 0, current_values |-> <<>>]

BotGame(bots, stream, choice, sample) ==
  [players |-> Len(bots),
   bots |-> bots,
   stream |-> stream,
   choice |-> choice,
   sample |-> sample,
   scores |-> [p \in 1..Len(bots) |-> NewScoreboard],
   current_round |-> 0,
   current_player_index |-> 0,
   winner |-> 0,
   phase |-> "loop",
   turn |-> NoTurn,
   goal |-> "none",
   turns |-> 0,
   raised |-> FALSE,
   last |-> [op |-> "none", rolls |-> 0, player |-> 0, category |-> "none",
             pre |-> {}]]

\* the random sources tried: each roll of a turn shows one of Rolls, a
\* RandomBot takes the first or the last available category and rolls no
\* die, one die or all dice again
Streams == [1..MAX_ROLLS -> Rolls]
Choices == {"first", "last"}
Samples == {{}, {0}, 0..(DEFAULT_NUM_DICE - 1)}

\* play_game, the loop test and the beginning of play_turn: Turn(player),
\* the first roll_dice() and decide_turn_goal(dice)
BeginTurn ==
  /\ game.phase = "loop"
  /\ ~is_game_over(game)
  /\ LET p == game.current_player_index + 1
         rolled == game.stream[1]
         r == roll_dice(NewTurn(rolled), 0..(DEFAULT_NUM_DICE - 1), rolled)
         goal == decide_turn_goal(game.bots[p], game.scores[p],
                                  r.turn.current_values, game.choice)
     IN game' = [game EXCEPT
                   !.turn = r.turn,
                   !.goal = goal,
                   !.phase = IF goal = NoCategory THEN "raised" ELSE "reroll",
                   !.raised = (goal = NoCategory),
                   !.last = [game.last EXCEPT !.op = "roll_dice"]]
  /\ UNCHANGED tableVars

\* play_turn, the while loop: the player names dice to roll again and they
\* are rolled
Reroll ==
  /\ game.phase = "reroll"
  /\ can_reroll(game.turn)
  /\ LET p == game.current_player_index + 1
         indices == make_reroll_decision(game.bots[p],
                      game.turn.current_values, game.goal, game.sample)
         rolled == game.stream[game.turn.roll_count + 1]
         r == roll_dice(game.turn, indices, rolled)
     IN /\ indices # {}
        /\ game' = [game EXCEPT
                      !.turn = r.turn,
                      !.raised = (r.res = ValueError),
                      !.phase = IF r.res = ValueError THEN "raised"
                                ELSE "reroll",
                      !.last = [game.last EXCEPT !.op = "roll_dice"]]
  /\ UNCHANGED tableVars

\* play_turn leaves the while loop (no roll left, or the player keeps the
\* dice) and calls turn.finalize(goal_category); play_game then calls
\* advance_turn, and _determine_winner when the game is over.
EndTurn ==
  /\ game.phase = "reroll"
  /\ LET p == game.current_player_index + 1
     IN /\ \/ ~can_reroll(game.turn)
           \/ make_reroll_decision(game.bots[p], game.turn.current_values,
                                   game.goal, game.sample) = {}
        /\ LET r == finalize(game.turn, game.scores[p], game.goal)
               g1 == [game EXCEPT
                        !.scores[p] = r.board,
                        !.turns = game.turns + 1,
                        !.turn = NoTurn,
                        !.goal = "none",
                        !.last = [op |-> "finalize",
                                  rolls |-> game.turn.roll_count,
                                  player |-> p,
                                  category |-> game.goal,
                                  pre |-> game.scores[p].filled]]
               g2 == advance_turn(g1)
           IN game' = IF r.res = ValueError
                      THEN [g1 EXCEPT !.raised = TRUE, !.phase = "raised",
                                      !.turns = game.turns]
                      ELSE IF is_game_over(g2)
                      THEN [g2 EXCEPT !.winner = determine_winner(g2),
                                      !.phase = "over"]
                      ELSE [g2 EXCEPT !.phase = "loop"]
  /\ UNCHANGED tableVars

BotGameInit ==
  /\ NoTables
  /\ \E n \in 1..MaxBots : \E bots \in [1..n -> BotKinds] :
       \E stream \in Streams, choice \in Choices, sample \in Samples :
         game = BotGame(bots, stream, choice, sample)

BotGameNext == BeginTurn \/ Reroll \/ EndTurn

SpecBotGame == BotGameInit /\ [][BotGameNext]_vars

\* ------------------------------------------------------ notions for claims
\* The call the client made in context c (the bottom frame; the frames above
\* it are calls made by _resize).
Outer(c) == stack[c][1]

\* Context c waits for the lock, which is held.
Stuck(c) == At(c, "lock") /\ lock # FREE

\* No call is in the middle of a step it can still take: every context is
\* idle or waits for a held lock.
Quiet == \A c \in Contexts : Idle(c) \/ Stuck(c)

\* The call in context c has gone as far as it ever will while Quiet lasts.
Halted(c) == ~Idle(c) /\ Stuck(c) /\ lock = c

Entries(t) == Flatten(t.buckets)
KeysOf(m) == {e[1] : e \in m}

\* ------------------------------------------------------------------- C1
\* C1: set(k, v) immediately followed by get(k) returns v, for both classes,
\* whether or not the set triggered a resize.  Stated on the table a get(k)
\* would read right after the set: once a set(k, v) has returned with no
\* other call begun since, or has come to a halt, __getitem__(k) on the
\* table gives v.
C1_SetThenGet ==
  /\ (lock = FREE /\ lastDone.op = "set")
       => GetItem(Cur, lastDone.key) = ValueRes(lastDone.val)
  /\ \A c \in Contexts :
       (Halted(c) /\ Outer(c).op = "set")
         => GetItem(Cur, Outer(c).key) = ValueRes(Outer(c).val)

\* The same for the calls that do return (what is left of C1 without the
\* halted calls).
C1_ReturnedSetThenGet ==
  (lock = FREE /\ lastDone.op = "set")
    => GetItem(Cur, lastDone.key) = ValueRes(lastDone.val)

\* ------------------------------------------------------------------- C2
\* C2: when C contexts each set M keys, all C*M keys distinct, on one shared
\* table, all contexts finish, size() == C*M and every key is retrievable
\* with its value, for every interleaving and every initial capacity.
ScriptDone == \A c \in Contexts : todo[c] = <<>> /\ Idle(c)

\* The run of a scenario has ended: no call can take a step and no call can
\* begin.
Ended == Quiet /\ (lock = FREE => ScriptDone)

C2_ConcurrentInsert ==
  (script.name = "writers" /\ Ended) =>
    /\ ScriptDone
    /\ size = NumContexts * KeysPerWriter
    /\ \A c \in Contexts : \A i \in 1..KeysPerWriter :
         GetItem(Cur, Writers[c][i][1]) = ValueRes(Writers[c][i][2])

\* What is left of C2 for the runs in which every writer finishes.
C2_FinishedInsert ==
  (script.name = "writers" /\ ScriptDone) =>
    /\ size = NumContexts * KeysPerWriter
    /\ \A c \in Contexts : \A i \in 1..KeysPerWriter :
         GetItem(Cur, Writers[c][i][1]) = ValueRes(Writers[c][i][2])

\* ------------------------------------------------------------------- C3
\* C3: a set on the shared table that makes size/capacity exceed 0.75 resizes
\* and returns with the lock free; the replay of the entries never waits for
\* the lock the triggering set holds.
C3_ReplayNeverBlocks ==
  \A c \in Contexts : At(c, "lock") => lock # c

\* ------------------------------------------------------------------- C4
\* C4: a context inside set/get/delete/contains/size on the shared table
\* holds the lock for as long as it is inside, at most one context is inside
\* an operation at a time, and a context that has returned or raised does not
\* hold the lock.
C4_LockDiscipline ==
  kind = "ThreadSafeHashTable" =>
    /\ \A c \in Contexts : ~Idle(c) => lock = c
    /\ \A c \in Contexts : Idle(c) => lock # c
    /\ Cardinality({c \in Contexts : ~Idle(c)}) <= 1
    /\ (\A c \in Contexts : Idle(c)) => lock = FREE

\* A get or delete has raised KeyError on the shared table and a later call
\* is inside its with block, holding the lock that raise released.
C4_Witness ==
  /\ kind = "ThreadSafeHashTable"
  /\ lastDone.res.tag = "KeyError"
  /\ \E c \in Contexts : At(c, "exit") /\ lock = c

\* ------------------------------------------------------------------- C5
\* C5: the results returned and the final contents of the shared table equal
\* those of a sequential HashTable to which the same calls are applied in the
\* order the lock was acquired.
C5_Linearizable ==
  kind = "ThreadSafeHashTable" =>
    /\ \A c \in Contexts :
         (Depth(c) = 1 /\ At(c, "exit")) => Top(c).res = Top(c).expect
    /\ Quiet => Cur = ref

\* What is left of C5 for the calls that return.
C5_ReturnedLinearizable ==
  kind = "ThreadSafeHashTable" =>
    /\ \A c \in Contexts :
         (Depth(c) = 1 /\ At(c, "exit")) => Top(c).res = Top(c).expect
    /\ lock = FREE => Cur = ref

\* ------------------------------------------------------------------- C6
\* C6: after a set that resized the table, every key inserted so far is
\* retrievable with the value most recently set for it, and no entry was lost
\* or duplicated.
Retrievable ==
  /\ \A e \in amap : GetItem(Cur, e[1]) = ValueRes(e[2])
  /\ Len(Entries(Cur)) = Cardinality(amap)

C6_ResizeKeepsEntries ==
  /\ (lock = FREE /\ lastDone.op = "set"
        /\ lastDone.pre.capacity # capacity) => Retrievable
  /\ \A c \in Contexts :
       (Halted(c) /\ Outer(c).pre.capacity # capacity) => Retrievable

\* ------------------------------------------------------------------- C7
\* C7: with the default capacity 16, 12 distinct keys leave capacity 16, the
\* 13th makes it 32, and after inserting key0..key19 with values 0..19
\* size() == 20, capacity >= 32 and get(key i) == i for all i.
ScenarioA ==
  /\ (Quiet /\ Cardinality(amap) <= 12) => capacity = DefaultCapacity
  /\ (Quiet /\ Cardinality(amap) = 13) => capacity = 2 * DefaultCapacity
  /\ Ended =>
       /\ size = ScenarioKeys
       /\ capacity >= 2 * DefaultCapacity
       /\ \A i \in 0..(ScenarioKeys - 1) :
            GetItem(Cur, StrKey(i)) = ValueRes(i)

C7_ScenarioA ==
  (script.name = "owner" /\ script.capacity = DefaultCapacity) => ScenarioA

\* The scenario on the sequential HashTable alone.
C7_ScenarioA_HashTable ==
  (script.name = "owner" /\ script.capacity = DefaultCapacity
     /\ kind = "HashTable") => ScenarioA

\* The general part of C7: capacity changes only by doubling, in a set whose
\* append made size/capacity exceed 0.75 (size counted before the resize
\* resets it).
C7_CapacityOnlyDoubles ==
  [][capacity' # capacity =>
       /\ capacity' = 2 * capacity
       /\ \/ /\ kind = "HashTable"
             /\ lastDone'.op = "set"
             /\ ~Contains(Cur, lastDone'.key)
             /\ OverLoad(size + 1, capacity) /\ ~OverLoad(size, capacity)
          \/ \E c \in Contexts :
               /\ lock = c
               /\ Outer(c).op = "set"
               /\ ~Contains(Outer(c).pre, Outer(c).key)
               /\ OverLoad(size, capacity) /\ ~OverLoad(size - 1, capacity)
               /\ size = Outer(c).pre.size + 1]_vars

\* ------------------------------------------------------------------- C8
\* The call that completed last is op, and no call has begun since: the
\* table is as that call left it.
JustDone(op) == lock = FREE /\ lastDone.op = op

StoredIn(t, k) == \E i \in 1..Len(Entries(t)) : Entries(t)[i][1] = k

\* C8: set(k, v2) on a key that is already stored replaces its value in
\* place, leaves size, capacity and the position of the entry in its bucket
\* unchanged, never triggers a resize, and a following get(k) returns v2.
C8_Overwrite ==
  (JustDone("set") /\ StoredIn(lastDone.pre, lastDone.key)) =>
    LET pre == lastDone.pre
        k == lastDone.key
    IN /\ capacity = pre.capacity
       /\ size = pre.size
       /\ Len(buckets) = Len(pre.buckets)
       /\ \A b \in 1..Len(buckets) :
            /\ Len(buckets[b]) = Len(pre.buckets[b])
            /\ \A i \in 1..Len(buckets[b]) :
                 buckets[b][i] = IF pre.buckets[b][i][1] = k
                                 THEN <<k, lastDone.val>>
                                 ELSE pre.buckets[b][i]
       /\ GetItem(Cur, k) = ValueRes(lastDone.val)

\* set("x", 1); set("x", 10): a stored key was given another value, behind
\* another entry of its bucket.
C8_Witness ==
  /\ JustDone("set")
  /\ size = lastDone.pre.size
  /\ \E b \in 1..Len(buckets) :
       /\ Len(buckets[b]) = 2
       /\ buckets[b][2] = <<lastDone.key, lastDone.val>>
       /\ lastDone.pre.buckets[b][2] # buckets[b][2]

\* ------------------------------------------------------------------- C9
\* C9: delete(k) on a key that is not stored fails with KeyError and leaves
\* size, capacity and all buckets unchanged; after a successful delete(k),
\* contains(k) is false and an immediately repeated delete(k) fails with
\* KeyError.
C9_Delete ==
  /\ (JustDone("del") /\ ~StoredIn(lastDone.pre, lastDone.key)) =>
       /\ lastDone.res = KeyError(lastDone.key)
       /\ Cur = lastDone.pre
  /\ (JustDone("del") /\ lastDone.res = NoneRes) =>
       /\ ~Contains(Cur, lastDone.key)
       /\ ~StoredIn(Cur, lastDone.key)
       /\ DelItem(Cur, lastDone.key).res = KeyError(lastDone.key)
  /\ \A c \in Contexts :
       (Depth(c) = 1 /\ At(c, "exit") /\ lastDone.op = "del"
          /\ lastDone.res = NoneRes /\ Top(c).key = lastDone.key) =>
         /\ Top(c).op = "del" => Top(c).res = KeyError(Top(c).key)
         /\ Top(c).op = "contains" => Top(c).res = BoolRes(FALSE)

\* delete(k) twice in a row on the shared table: the second raises KeyError.
C9_Witness ==
  \E c \in Contexts :
    /\ AtOp(c, "del", "exit")
    /\ Top(c).res = KeyError(Top(c).key)
    /\ lastDone.op = "del" /\ lastDone.res = NoneRes
    /\ lastDone.key = Top(c).key
    /\ size > 0

\* ------------------------------------------------------------------ C10
\* C10: get(k) returns the stored value when k is present and fails with
\* KeyError when k is absent; size, capacity and every bucket are unchanged
\* by the call.
C10_Get ==
  JustDone("get") =>
    LET k == lastDone.key
    IN /\ Cur = lastDone.pre
       /\ StoredIn(Cur, k) =>
            /\ lastDone.res.tag = "value"
            /\ \E i \in 1..Len(Entries(Cur)) :
                 Entries(Cur)[i] = <<k, lastDone.res.v>>
       /\ ~StoredIn(Cur, k) => lastDone.res = KeyError(k)
       /\ \A e \in amap : e[1] = k => lastDone.res = ValueRes(e[2])
       /\ k \notin KeysOf(amap) => lastDone.res = KeyError(k)

\* get found its key behind another entry of the same bucket.
C10_Witness ==
  /\ JustDone("get")
  /\ lastDone.res.tag = "value"
  /\ \E b \in 1..Len(buckets) :
       /\ Len(buckets[b]) = 2
       /\ buckets[b][2] = <<lastDone.key, lastDone.res.v>>

\* ------------------------------------------------------------------ C11
\* The keys for which contains is true.
ContainedKeys(t) == {k \in Keys : Contains(t, k)}

\* C11: after N set calls with N distinct keys on an empty table size() == N,
\* after then deleting M of them size() == N - M; size() always equals the
\* number of distinct keys for which contains is true.  Stated on the table
\* whenever no call can take a step: its size is the number of keys set and
\* not deleted since by the calls made, and the number of contained keys.
C11_SizeAccounting ==
  Quiet =>
    /\ LenOf(Cur) = Cardinality(amap)
    /\ LenOf(Cur) = Cardinality(ContainedKeys(Cur))

\* What is left of C11 when every call made has returned.
C11_ReturnedSizeAccounting ==
  lock = FREE =>
    /\ LenOf(Cur) = Cardinality(amap)
    /\ LenOf(Cur) = Cardinality(ContainedKeys(Cur))

\* ------------------------------------------------------------------ C12
\* C12: whenever no operation is in progress (for the shared table: whenever
\* the lock is free), the size counter equals the sum of the entry counts of
\* all buckets.
C12_SizeIsEntryCount ==
  lock = FREE => size = Len(Entries(Cur))

\* A delete has just removed one of at least three entries of a table that
\* has been resized.
C12_Witness ==
  /\ JustDone("del") /\ lastDone.res = NoneRes
  /\ size >= 2
  /\ capacity > script.capacity

\* ------------------------------------------------------------------ C13
\* C13: after any sequence of set and delete operations, with any resizes
\* they trigger, every key appears in at most one bucket and at most once
\* within that bucket.
C13_KeyOnce ==
  LET es == Entries(Cur)
  IN \A i, j \in 1..Len(es) : es[i][1] = es[j][1] => i = j

\* A stored key was set again behind another entry of its bucket, in a table
\* that has been resized.
C13_Witness ==
  /\ JustDone("set")
  /\ capacity > script.capacity
  /\ capacity = lastDone.pre.capacity
  /\ \E b \in 1..Len(buckets) :
       FindIdx(lastDone.pre.buckets[b], lastDone.key) >= 2

\* ------------------------------------------------------------------ C14
\* C14: after every completed operation each stored entry (k, v) is in the
\* bucket whose index is hash(k) mod capacity for the current capacity, in
\* particular right after any resize.
C14_EntryInHashBucket ==
  \A b \in 1..Len(buckets) : \A i \in 1..Len(buckets[b]) :
    Hash(Cur, buckets[b][i][1]) = b - 1

\* A set has resized the table and an entry now lies in another bucket than
\* the one it had under the old capacity.
C14_Witness ==
  /\ JustDone("set")
  /\ capacity = 2 * lastDone.pre.capacity
  /\ \E b \in 1..Len(buckets) : \E i \in 1..Len(buckets[b]) :
       Hash(lastDone.pre, buckets[b][i][1]) # b - 1

\* ------------------------------------------------------------------ C15
\* C15: immediately after any set call has returned, size / capacity <= 0.75,
\* for every positive initial capacity, capacity 1 included.
C15_LoadFactor ==
  JustDone("set") => LoadDen * size <= LoadNum * capacity

\* A set on a table built with capacity 1 has returned after the second
\* resize of the table.
C15_Witness ==
  /\ JustDone("set")
  /\ script.capacity = 1
  /\ capacity # lastDone.pre.capacity
  /\ size >= 2

\* ------------------------------------------------------------------ C16
\* The operation of the call a step belongs to: the call a HashTable step
\* completes, or the client's call of the context that holds the lock.
StepOps ==
  IF kind = "HashTable" THEN {lastDone'.op}
  ELSE {Outer(c).op : c \in {d \in Contexts : lock = d /\ ~Idle(d)}}

\* C16: capacity never decreases, whatever the sequence and interleaving of
\* operations, and delete, get, contains, size and iterate leave it
\* unchanged.
C16_CapacityNeverDecreases ==
  [][/\ capacity' >= capacity
     /\ capacity' # capacity => StepOps = {"set"}]_vars

\* A table that has been resized twice has just been through a delete.
C16_Witness ==
  /\ JustDone("del") /\ lastDone.res = NoneRes
  /\ capacity >= 4 * script.capacity

\* ------------------------------------------------------------------ C20
\* C20: an iteration with no mutation in between yields every stored key
\* exactly once, the buckets in ascending index order and each bucket in
\* chain order; each iteration starts afresh from bucket 0; the keys yielded
\* are the keys for which contains is true.
C20_Iterate ==
  /\ JustDone("iter") =>
       LET ks == lastDone.res.v
       IN /\ lastDone.res.tag = "keys"
          /\ Cur = lastDone.pre
          /\ Len(ks) = Len(Entries(Cur))
          /\ \A i \in 1..Len(ks) : ks[i] = Entries(Cur)[i][1]
          /\ \A k \in Keys :
               Cardinality({i \in 1..Len(ks) : ks[i] = k})
                 = IF Contains(Cur, k) THEN 1 ELSE 0
          /\ {ks[i] : i \in 1..Len(ks)} = ContainedKeys(Cur)
  /\ \A c \in Contexts :
       (AtOp(c, "iter", "exit") /\ lastDone.op = "iter") =>
         Top(c).res = lastDone.res

\* An iteration has gone through a bucket of one entry and then, in a later
\* bucket, a chain of two.
C20_Witness ==
  /\ JustDone("iter")
  /\ Len(lastDone.res.v) = 3
  /\ \E b \in 1..Len(buckets) : \E d \in 1..Len(buckets) :
       /\ b < d
       /\ Len(buckets[b]) = 1
       /\ Len(buckets[d]) = 2

\* The second of two iterations in a row over a shared table with entries
\* has yielded all its keys.
C20_WitnessAgain ==
  \E c \in Contexts :
    /\ AtOp(c, "iter", "exit") /\ lastDone.op = "iter"
    /\ Len(Top(c).res.v) >= 2

\* ------------------------------------------------------------------ C17
\* C17: a set or delete either completes, with its whole effect in the
\* table, or leaves capacity, size and buckets exactly as they were before
\* the call; no call that did not complete leaves the capacity doubled, the
\* buckets emptied or the size reset.
C17_AllOrNothing ==
  /\ (JustDone("set") \/ JustDone("del")) =>
       Cur = Apply(lastDone.pre, lastDone.op, lastDone.key, lastDone.val).t
  /\ \A c \in Contexts :
       (Halted(c) /\ Outer(c).op \in {"set", "del"}) => Cur = Outer(c).pre

\* What is left of C17 for the calls that complete.
C17_CompletedInFull ==
  (JustDone("set") \/ JustDone("del")) =>
    Cur = Apply(lastDone.pre, lastDone.op, lastDone.key, lastDone.val).t

\* ------------------------------------------------------------------ C18
\* C18: creating a table with capacity <= 0 fails with InvalidCapacity, so no
\* table with capacity <= 0 exists and no set, get, delete or contains ever
\* runs against zero buckets.
C18_InvalidCapacity ==
  lastDone.op \in KeyedOps =>
    /\ lastDone.pre.capacity > 0
    /\ lastDone.res.tag \notin {"ZeroDivisionError", "IndexError"}

\* ------------------------------------------------------------------ C19
\* C19: contains(k) is true exactly when k is stored, i.e. exactly when
\* get(k) would succeed; it never fails and leaves size, capacity and buckets
\* unchanged; after set(k, v) it is true and after a successful delete(k) it
\* is false.
C19_ReturnedContains ==
  /\ JustDone("contains") =>
       /\ Cur = lastDone.pre
       /\ lastDone.res = BoolRes(StoredIn(Cur, lastDone.key))
       /\ lastDone.res = BoolRes(GetItem(Cur, lastDone.key).tag = "value")
       /\ lastDone.res = BoolRes(lastDone.key \in KeysOf(amap))
  /\ JustDone("set") => Contains(Cur, lastDone.key)
  /\ (JustDone("del") /\ lastDone.res = NoneRes) => ~Contains(Cur, lastDone.key)

C19_Contains ==
  /\ C19_ReturnedContains
  /\ \A c \in Contexts :
       (Halted(c) /\ Outer(c).op = "set") => Contains(Cur, Outer(c).key)

\* ------------------------------------------------------------------ C21
\* The steps 'acquire; append; increment; release' the writers have made or
\* begun.
RECURSIVE StepsOf(_)
StepsOf(c) ==
  IF c = 0 THEN 0
  ELSE StepsOf(c - 1)
         + (IF c \in script.writers THEN KeysPerWriter - Len(todo[c]) ELSE 0)

\* C21: when several processes each repeat 'acquire the lock; append one
\* entry to bucket hash(key) mod capacity; increment the shared size; release
\* the lock', with other processes reading buckets under the same lock, the
\* final size() is the initial size plus the number of such steps, in every
\* interleaving.  Stated whenever the lock is free, the end of the run
\* included.
C21_DirectWriters ==
  (script.name = "direct" /\ lock = FREE) =>
    /\ size = script.initial + StepsOf(NumContexts)
    /\ Len(Entries(Cur)) = size

\* Two writers have written all their keys into a preloaded table.
C21_Witness ==
  /\ script.name = "direct"
  /\ Cardinality(script.writers) >= 2
  /\ script.initial > 0
  /\ \A c \in Contexts : todo[c] = <<>> /\ Idle(c)
  /\ size = script.initial + Cardinality(script.writers) * KeysPerWriter

\* ------------------------------------------------------------------ C22
\* C22: repr(table) on a shared table, called while the lock is free,
\* terminates with the lock free again, and so does a traversal of items()
\* or values() of a non-empty shared table: none of them comes to wait for a
\* lock that its own context holds.
C22_ViewsTerminate ==
  \A c \in Contexts :
    Halted(c) => Outer(c).op \notin (ViewOps \cup {"repr"})

\* ------------------------------------------------------------------ C23
\* C23: Scoreboard.fill_category fills each category at most once: a first
\* fill of an unfilled category stores its score, a later fill of the same
\* category raises ValueError and leaves every stored score unchanged; a
\* filled category is never unfilled or overwritten.
C23_FillOnce ==
  [][game'.last.op = "fill_category" =>
       LET pre == game.scores[1]
           now == game'.scores[1]
           c == game'.last.category
           res == game'.last.res
       IN /\ c \in pre.filled =>
               /\ res = ValueError
               /\ now = pre
          /\ (c \in SeqSet(CATEGORIES) /\ c \notin pre.filled) =>
               /\ res = IntRes(score_for_category(c, game'.last.dice_values,
                                                  game'.last.first_throw))
               /\ now.filled = pre.filled \cup {c}
               /\ now.score[c] = res.v
          /\ \A d \in pre.filled :
               d \in now.filled /\ now.score[d] = pre.score[d]]_vars

\* A category filled with a score of 0 was filled again, which raised
\* ValueError, on a scoreboard with another category filled.
C23_Witness ==
  /\ game.last.op = "fill_category"
  /\ game.last.res = ValueError
  /\ game.last.category \in game.scores[1].filled
  /\ game.scores[1].score[game.last.category] = 0
  /\ Cardinality(game.scores[1].filled) = 2

\* ------------------------------------------------------------------ C24
\* C24: with P players current_player_index is always in [0, P), advances by
\* one per call of advance_turn and wraps to 0 exactly when the round counter
\* increments; after k calls current_round == k div P; is_game_over() is true
\* exactly when current_round >= 17, first after 17 * P calls.
C24_RoundRobin ==
  game.last.op \in {"none", "advance_turn"} =>
    /\ game.current_player_index \in 0..(game.players - 1)
    /\ game.current_player_index = game.calls % game.players
    /\ game.current_round = game.calls \div game.players
    /\ is_game_over(game) <=> game.current_round >= Cardinality(SeqSet(CATEGORIES))
    /\ is_game_over(game) <=> game.calls >= 17 * game.players

\* The game of the most players has just become over.
C24_Witness ==
  /\ game.last.op = "advance_turn"
  /\ game.players = MaxPlayers
  /\ game.calls = 17 * game.players
  /\ is_game_over(game)
  /\ game.current_player_index = 0

\* ------------------------------------------------------------------ C25
\* The players whose total score no player exceeds.
TopPlayers ==
  {p \in 1..game.players : \A q \in 1..game.players :
     get_total_score(game.scores[p]) >= get_total_score(game.scores[q])}

\* C25: _determine_winner sets winner to the single player whose total score
\* is strictly greater than every other player's, and to None whenever two
\* or more players share the maximum total score.
C25_Winner ==
  game.last.op = "determine_winner" =>
    /\ \A p \in 1..game.players :
         (\A q \in 1..game.players \ {p} :
            get_total_score(game.scores[p]) > get_total_score(game.scores[q]))
           => game.winner = p
    /\ Cardinality(TopPlayers) >= 2 => game.winner = 0

\* Two of three players share the maximum and there is no winner, after a
\* call that had named one.
C25_Witness ==
  /\ game.last.op = "determine_winner"
  /\ game.players = 3
  /\ Cardinality(TopPlayers) = 2
  /\ game.winner = 0
  /\ \E p \in 1..game.players : game.scores[p].filled = SampleCategories

\* ------------------------------------------------------------------ C26
\* The table as the set of (k, v) on table t leaves it just before _resize:
\* a set resizes only after appending a new entry.
BeforeResize(t, k, v) ==
  [t EXCEPT !.buckets[Hash(t, k) + 1] = Append(@, <<k, v>>),
            !.size = t.size + 1]

\* The entries of the list that belong in bucket j of a table of the given
\* capacity, in the order of the list.
RECURSIVE Landing(_, _, _)
Landing(entries, cap, j) ==
  IF Len(entries) = 0 THEN <<>>
  ELSE LET rest == Landing(Tail(entries), cap, j)
       IN IF Hash(Table(cap, 0, <<>>), Head(entries)[1]) = j
          THEN <<Head(entries)>> \o rest
          ELSE rest

\* The table is table t resized once: twice the capacity, every entry of t
\* once, in its bucket for the new capacity, in old bucket-index order then
\* chain order, and the size of t.
ResizedOnceFrom(t) ==
  /\ capacity = 2 * t.capacity
  /\ Len(buckets) = capacity
  /\ \A j \in 1..capacity :
       buckets[j] = Landing(Flatten(t.buckets), capacity, j - 1)
  /\ Len(Flatten(buckets)) = Len(Flatten(t.buckets))
  /\ size = t.size

\* C26: each resize doubles capacity exactly once and replays every stored
\* entry exactly once, in old bucket-index order then chain order, into the
\* bucket for the new capacity; the replay triggers no nested resize, and
\* after the resize the entries and the size are what they were just before
\* it.  Stated once the set that resized has returned or has come to a halt.
C26_ResizeOnce ==
  /\ (lock = FREE /\ lastDone.op = "set" /\ lastDone.pre.capacity # capacity)
       => ResizedOnceFrom(BeforeResize(lastDone.pre, lastDone.key,
                                       lastDone.val))
  /\ \A c \in Contexts :
       (Halted(c) /\ Outer(c).pre.capacity # capacity)
         => ResizedOnceFrom(BeforeResize(Outer(c).pre, Outer(c).key,
                                         Outer(c).val))

\* What is left of C26 for the sets that return: those of HashTable.
C26_ReturnedResizeOnce ==
  (lock = FREE /\ lastDone.op = "set" /\ lastDone.pre.capacity # capacity)
    => ResizedOnceFrom(BeforeResize(lastDone.pre, lastDone.key, lastDone.val))

\* ------------------------------------------------------------------ C27
\* Context c is between the moment its _resize replaced capacity, buckets and
\* size and the return of that _resize.
MidResize(c) == \E i \in 1..Depth(c) : stack[c][i].pc = "replay"

\* C27: resize is indivisible for other contexts: from the moment a resize
\* changes capacity, buckets and size until all entries are re-inserted, the
\* resizing context holds the lock and no other context is inside a get,
\* contains, size, delete, set or iteration, so none reads the table with the
\* capacity doubled and entries missing or the size reset.
C27_ResizeIndivisible ==
  \A c \in Contexts :
    MidResize(c) =>
      /\ lock = c
      /\ \A d \in Contexts \ {c} : Idle(d)

\* A resize is under way after earlier calls of the contexts: the capacity is
\* doubled, the size is reset and old entries are still to be re-inserted.
C27_Witness ==
  /\ lastDone.op # "none"
  /\ \E c \in Contexts :
       /\ MidResize(c)
       /\ capacity = 2 * Outer(c).pre.capacity
       /\ size = 0
       /\ Len(Outer(c).pending) >= 1

\* ------------------------------------------------------------------ C28
\* The number of entries of the table whose key is k.
TimesStored(t, k) ==
  Cardinality({i \in 1..Len(Entries(t)) : Entries(t)[i][1] = k})

\* What C28 says of the table once the contending calls are over.
ContendedOutcome ==
  LET t0 == script.initial
      k == ContendedKey
  IN /\ script.mode = "sets" =>
          /\ TimesStored(Cur, k) = 1
          /\ size = t0.size + 1
          /\ GetItem(Cur, k) = ValueRes(lastDone.val)
     /\ script.mode = "set_delete" =>
          \/ Cur = DelItem(SetItem(t0, k, 1), k).t
          \/ Cur = SetItem(DelItem(t0, k).t, k, 1)

\* C28: when the contexts concurrently call set on one key that was absent,
\* in every interleaving the key ends up stored exactly once, size has
\* increased by exactly 1 and get returns the value written by the context
\* that acquired the lock last; a concurrent set(k) and delete(k) leave the
\* table in the state of one of the two sequential orders.
C28_ContendedKey ==
  (script.name = "contended" /\ Ended) => ContendedOutcome

\* What is left of C28 for the runs in which every call returns.
C28_ReturnedContendedKey ==
  (script.name = "contended" /\ ScriptDone) => ContendedOutcome

\* ------------------------------------------------------------------ C29
\* In table t the entry of key ka stands before the entry of key kb in one
\* bucket.
Precedes(t, ka, kb) ==
  \E j \in 1..Len(t.buckets) : \E a, b \in 1..Len(t.buckets[j]) :
    /\ a < b
    /\ t.buckets[j][a][1] = ka
    /\ t.buckets[j][b][1] = kb

\* The entries of the bucket whose key is not k, in their order.
RECURSIVE Without(_, _)
Without(bucket, k) ==
  IF Len(bucket) = 0 THEN <<>>
  ELSE IF Head(bucket)[1] = k THEN Without(Tail(bucket), k)
  ELSE <<Head(bucket)>> \o Without(Tail(bucket), k)

\* A successful delete has just returned.
JustDeleted == JustDone("del") /\ lastDone.res = NoneRes

\* What C29 says of the table after a successful delete(k).
DeleteKeepsOrder ==
  LET pre == lastDone.pre
      k == lastDone.key
      h == Hash(pre, k) + 1
  IN /\ capacity = pre.capacity
     /\ size = pre.size - 1
     /\ Len(buckets) = Len(pre.buckets)
     /\ Len(buckets[h]) = Len(pre.buckets[h]) - 1
     /\ buckets[h] = Without(pre.buckets[h], k)
     /\ \A j \in 1..Len(buckets) : j # h => buckets[j] = pre.buckets[j]

\* C29: within a bucket the entries are in insertion order of the keys
\* currently resident: no step puts an entry before an entry that was there
\* already, and the entries that stay together in a bucket keep their order;
\* delete(k) removes exactly the entry of k, decrements size by 1, keeps the
\* relative order of the other entries of the bucket and leaves the other
\* buckets and the capacity unchanged.
C29_ChainOrder ==
  [][/\ \A j \in 1..Len(buckets') : \A a, b \in 1..Len(buckets'[j]) :
          (a < b /\ StoredIn(Cur, buckets'[j][b][1]))
            => Precedes(Cur, buckets'[j][a][1], buckets'[j][b][1])
     /\ JustDeleted' => DeleteKeepsOrder']_vars

\* The first entry of a chain of two has just been deleted.
C29_Witness ==
  /\ JustDeleted
  /\ Len(lastDone.pre.buckets[Hash(lastDone.pre, lastDone.key) + 1]) = 2
  /\ lastDone.pre.buckets[Hash(lastDone.pre, lastDone.key) + 1][1][1]
       = lastDone.key
  /\ Len(buckets[Hash(Cur, lastDone.key) + 1]) = 1

\* ------------------------------------------------------------------ C30
\* What C30 says of a table no operation is working on.
BucketCount ==
  lock = FREE =>
    /\ Len(buckets) = capacity
    /\ (lastDone.op = "none" /\ \A c \in Contexts : Idle(c)) =>
         /\ capacity = script.capacity
         /\ size = 0
         /\ \A j \in 1..Len(buckets) : buckets[j] = <<>>

\* C30: whenever no operation is in progress (for the shared table: whenever
\* the lock is free) the bucket array holds exactly capacity buckets, from
\* creation (the initial capacity, all buckets empty, size 0) through every
\* resize.
C30_BucketCount == BucketCount

\* What is left of C30 for the tables created with a positive capacity.
C30_PositiveBucketCount == script.capacity > 0 => BucketCount

\* ------------------------------------------------------------------ C31
\* C31: a set, get, delete or contains with a key that has no valid hash
\* fails (with TypeError, out of hash(key)) at the point of use, before any
\* bucket or counter is touched: size, capacity and buckets are unchanged
\* and, on the shared table, the lock is free after the failure.
C31_UnhashableKey ==
  [][/\ \A c \in Contexts :
          (~Idle(c)' /\ Top(c)'.key \in UnhashableKeys)
            => /\ Cur' = Top(c)'.pre
               /\ Top(c)'.pc = "exit" => Top(c)'.res = TypeError
     /\ (lastDone' # lastDone /\ lastDone'.key \in UnhashableKeys)
          => /\ lastDone'.op \in KeyedOps
             /\ lastDone'.res = TypeError
             /\ Cur' = lastDone'.pre
             /\ Cur' = Cur
             /\ lock' = FREE]_vars

\* Both classes have refused an unhashable key on a table that holds an
\* entry: the shared table's set has raised and the lock is free.
C31_Witness ==
  /\ lastDone.key \in UnhashableKeys
  /\ lastDone.res = TypeError
  /\ lastDone.op = "set"
  /\ kind = "ThreadSafeHashTable"
  /\ size >= 1
  /\ lock = FREE

\* ------------------------------------------------------------------ C32
\* Context c's setdefault or pop has returned or raised.
MixinDone(c) == Depth(c) = 1 /\ Outer(c).pc = "done"

\* Context c's setdefault or pop is between its lookup and its write or
\* removal.
MixinBetween(c) ==
  /\ Depth(c) = 2
  /\ Outer(c).op \in MixinOps
  /\ Outer(c).pc \in {"set", "del"}
  /\ Top(c).pc = "lock"

\* C32: every operation of the shared table, the inherited setdefault and pop
\* included, is protected against races: concurrent setdefault(k, d1) and
\* setdefault(k, d2) on an absent key return the same value, which is the one
\* stored; and no other context's operation takes effect between the lookup
\* and the write of one setdefault, or between the read and the removal of
\* one pop.
C32_MixinsAtomic ==
  /\ (/\ GetItem(script.initial, ContendedKey).tag = "KeyError"
      /\ \A c \in Contexts : MixinDone(c) /\ Outer(c).op = "setdefault")
       => \A c, d \in Contexts :
            /\ Outer(c).res = Outer(d).res
            /\ GetItem(Cur, ContendedKey) = Outer(c).res
  /\ \A c \in Contexts : MixinBetween(c) => Cur = Outer(c).pre

\* ------------------------------------------------------------------ C33
\* Frame i of context c is an iteration that has yielded a key and is
\* suspended at its yield, inside its with block.
Iterating(c, i) ==
  /\ i \in 1..Depth(c)
  /\ stack[c][i].op = "iter"
  /\ stack[c][i].pc = "yield"
  /\ Len(stack[c][i].pending) < Len(Flatten(stack[c][i].pre.buckets))

\* C33: while an iteration over the shared table has yielded a key and is
\* not exhausted, the iterating context holds the lock between yields: the
\* table is as it was when the iteration began, no other context is inside
\* an operation, and an operation the iterating context itself starts waits
\* for the lock.
C33_IterationHoldsLock ==
  \A c \in Contexts : \A i \in 1..Depth(c) :
    Iterating(c, i) =>
      /\ lock = c
      /\ Cur = stack[c][i].pre
      /\ \A j \in (i + 1)..Depth(c) : stack[c][j].pc = "lock"
      /\ \A d \in Contexts \ {c} : \A j \in 1..Depth(d) :
           stack[d][j].pc \in {"lock", "next"}

\* An iteration has yielded a key of a table of two entries; the get its own
\* context made for that key waits for the lock, and so does the iteration
\* another context wants to begin.
C33_Witness ==
  \E c \in Contexts : \E d \in Contexts \ {c} :
    /\ Depth(c) = 3
    /\ Iterating(c, 2)
    /\ Top(c).op = "get" /\ Top(c).pc = "lock"
    /\ size = 2
    /\ At(d, "lock")

\* ------------------------------------------------------------------ C34
\* What C34 says: the contexts agree on the index of every key, which lies
\* in [0, capacity), and a get or contains of any context finds every entry
\* that is stored.
SameIndexEverywhere ==
  /\ \A k \in ProcessKeys : \A c, d \in Contexts :
       /\ HashIn(c, k) \in 0..(capacity - 1)
       /\ HashIn(c, k) = HashIn(d, k)
  /\ (lastDone.op = "get" /\ StoredIn(lastDone.pre, lastDone.key))
       => lastDone.res.tag = "value"
  /\ lastDone.op = "contains"
       => lastDone.res = BoolRes(StoredIn(lastDone.pre, lastDone.key))

\* C34: the bucket index of a key depends only on the key and the current
\* capacity and lies in [0, capacity): every context, thread or process,
\* that computes the index of equal keys against the same capacity obtains
\* the same index, so an entry written by one context is found by get and
\* contains in any other context.
C34_SameIndex == script.name = "processes" => SameIndexEverywhere

\* What is left of C34 for contexts that share one hash seed (threads, and
\* processes forked from one parent).
C34_SameSeedSameIndex ==
  (script.name = "processes"
     /\ \A c, d \in Contexts : script.seeds[c] = script.seeds[d])
    => SameIndexEverywhere

\* ------------------------------------------------------------------ C35
\* C35: within one Turn roll_dice succeeds at most 3 times: roll_count is
\* always in 0..3 and increases by exactly 1 per successful roll; roll_dice
\* at roll_count == 3 raises ValueError and leaves roll_count and the dice
\* values unchanged; can_reroll() is true exactly when roll_count < 3; and
\* finalize raises ValueError, filling no category, when no roll has been
\* made.
C35_TurnRolls ==
  [][/\ game'.turn.roll_count \in 0..3
     /\ can_reroll(game'.turn) <=> game'.turn.roll_count < 3
     /\ game'.last.op = "roll_dice" =>
          IF game.turn.roll_count = 3
          THEN /\ game'.last.res = ValueError
               /\ game'.turn = game.turn
          ELSE /\ game'.last.res # ValueError
               /\ game'.turn.roll_count = game.turn.roll_count + 1
     /\ (game'.last.op = "finalize" /\ game.turn.roll_count = 0) =>
          /\ game'.last.res = ValueError
          /\ game'.scores = game.scores
          /\ game'.turn = game.turn
     /\ game'.turn.roll_count # game.turn.roll_count =>
          /\ game'.last.op = "roll_dice"
          /\ game'.last.res # ValueError]_vars

\* A fourth roll_dice has raised, on a turn that has not scored.
C35_Witness ==
  /\ game.last.op = "roll_dice"
  /\ game.last.res = ValueError
  /\ game.turn.roll_count = 3
  /\ ~can_reroll(game.turn)
  /\ game.scores[1].filled = {}

\* ------------------------------------------------------------------ C36
\* C36: play_game with P >= 1 bot players terminates after exactly 17 * P
\* turns: every turn makes between 1 and 3 rolls and fills exactly one
\* previously unfilled category of the current player, no turn raises, and
\* at the end every player's scoreboard is complete.
C36_GameTerminates ==
  /\ ~game.raised
  /\ game.phase # "raised"
  /\ game.turns <= 17 * game.players
  /\ game.turns = game.current_round * game.players
                    + game.current_player_index
  /\ game.phase = "reroll" => game.turn.roll_count \in 1..3
  /\ game.last.op = "finalize" =>
       /\ game.last.rolls \in 1..3
       /\ game.last.category \in SeqSet(CATEGORIES)
       /\ game.last.category \notin game.last.pre
       /\ game.scores[game.last.player].filled
            = game.last.pre \cup {game.last.category}
  /\ game.phase = "over" <=> game.turns = 17 * game.players
  /\ game.phase = "over" =>
       \A p \in 1..game.players : is_complete(game.scores[p])

\* The game is over after a last turn of three rolls.
C36_Witness ==
  /\ game.phase = "over"
  /\ game.turns = 17 * game.players
  /\ game.last.rolls = 3
  /\ \A p \in 1..game.players : is_complete(game.scores[p])

====
